---- MODULE Spec2Model ----
(***************************************************************************)
(* A model of the OpenAI MCP server: the two tool-call handlers (the full  *)
(* registry and the reduced registry), the zod parameter schemas, the      *)
(* DALL-E model-constraint checks, and the image decoders.                 *)
(*                                                                         *)
(* Strings whose characters matter to the code (image arguments) are       *)
(* sequences of one-character strings.  Messages are sequences of string   *)
(* tokens: the literal pieces of the template strings of the source and    *)
(* the values interpolated between them.                                   *)
(***************************************************************************)
EXTENDS Integers, Sequences, FiniteSets, TLC

VARIABLES registry, call, img, dalle, util, process

vars == <<registry, call, img, dalle, util, process>>

-----------------------------------------------------------------------------
(* Bounds of the model *)

\* longest buffer built from the byte alphabet
MaxBytesLen == 3

\* longest payload text of a generated image argument
MaxPayloadLen == 3

-----------------------------------------------------------------------------
(* Character strings *)

Http == <<"h","t","t","p",":","/","/">>
Https == <<"h","t","t","p","s",":","/","/">>
DataImage == <<"d","a","t","a",":","i","m","a","g","e">>
DataImageSlash == DataImage \o <<"/">>
Base64Marker == <<";","b","a","s","e","6","4",",">>
Png == <<"p","n","g">>
Jpeg == <<"j","p","e","g">>

startsWith(s, p) ==
    /\ Len(s) >= Len(p)
    /\ SubSeq(s, 1, Len(p)) = p

\* s.substring(i) with a 1-based start
DropFirst(s, k) == SubSeq(s, k + 1, Len(s))

\* 1-based index of the first c in s, 0 when there is none
IndexOf(s, c) ==
    IF \E i \in 1..Len(s) : s[i] = c
    THEN CHOOSE i \in 1..Len(s) : s[i] = c /\ \A j \in 1..(i - 1) : s[j] # c
    ELSE 0

Utf8Lower == {"a","b","c","d","e","f","g","h","i","j","k","l","m",
              "n","o","p","q","r","s","t","u","v","w","x","y","z"}
Utf8Upper == {"A","B","C","D","E","F","G","H","I","J","K","L","M",
              "N","O","P","Q","R","S","T","U","V","W","X","Y","Z"}
Digits == {"0","1","2","3","4","5","6","7","8","9"}

\* the character class [a-zA-Z+] of the data URL pattern
IsFormatChar(c) == c \in Utf8Lower \cup Utf8Upper \cup {"+"}

\* the characters "." does not match
IsLineTerminator(c) == c \in {"\n", "\r"}

\* length of the longest prefix of s made of format characters
FormatRun(s) ==
    IF \E i \in 1..Len(s) : ~IsFormatChar(s[i])
    THEN (CHOOSE i \in 1..Len(s) :
            /\ ~IsFormatChar(s[i])
            /\ \A j \in 1..(i - 1) : IsFormatChar(s[j])) - 1
    ELSE Len(s)

\* imageData.match(/^data:image\/([a-zA-Z+]+);base64,(.+)$/): the format run
\* cannot hold ";", so the match, when there is one, is unique
DataURLMatch(s) ==
    IF ~startsWith(s, DataImageSlash)
    THEN [matched |-> FALSE, format |-> <<>>, base64Data |-> <<>>]
    ELSE LET rest == DropFirst(s, Len(DataImageSlash))
             k == FormatRun(rest)
             after == DropFirst(rest, k)
             data == DropFirst(after, Len(Base64Marker))
         IN IF /\ k >= 1
               /\ startsWith(after, Base64Marker)
               /\ Len(data) >= 1
               /\ \A i \in 1..Len(data) : ~IsLineTerminator(data[i])
            THEN [matched |-> TRUE, format |-> SubSeq(rest, 1, k), base64Data |-> data]
            ELSE [matched |-> FALSE, format |-> <<>>, base64Data |-> <<>>]

-----------------------------------------------------------------------------
(* Buffer.from(text, "base64") *)

B64Chars ==
    <<"A","B","C","D","E","F","G","H","I","J","K","L","M",
      "N","O","P","Q","R","S","T","U","V","W","X","Y","Z",
      "a","b","c","d","e","f","g","h","i","j","k","l","m",
      "n","o","p","q","r","s","t","u","v","w","x","y","z",
      "0","1","2","3","4","5","6","7","8","9","+","/">>

IsB64Char(c) == c \in Utf8Lower \cup Utf8Upper \cup Digits \cup {"+", "/", "-", "_"}

\* the value of a legal character; "-" and "_" are the URL-safe 62 and 63
B64Val(c) ==
    IF c = "-" THEN 62
    ELSE IF c = "_" THEN 63
    ELSE (CHOOSE i \in 1..64 : B64Chars[i] = c) - 1

\* the text the decoder reads: it stops at the first "="
BeforePad(s) ==
    LET p == IndexOf(s, "=")
    IN IF p = 0 THEN s ELSE SubSeq(s, 1, p - 1)

\* characters outside the alphabet are skipped, never reported
Sextets(s) ==
    LET legal == SelectSeq(BeforePad(s), IsB64Char)
    IN [i \in 1..Len(legal) |-> B64Val(legal[i])]

Pow2(k) == IF k = 0 THEN 1 ELSE IF k = 2 THEN 4 ELSE 16

\* byte j (from 0) of the bit string of the sextets
ByteAt(sx, j) ==
    LET a == (8 * j) \div 6
        o == (8 * j) % 6
    IN ((sx[a + 1] * 64 + sx[a + 2]) \div Pow2(4 - o)) % 256

\* Buffer.from(text, "base64"): total on strings, it never throws
Base64Decode(s) ==
    LET sx == Sextets(s)
        nbytes == (6 * Len(sx)) \div 8
    IN [j \in 1..nbytes |-> ByteAt(sx, j - 1)]

-----------------------------------------------------------------------------
(* buffer.toString("base64") and bufferToDataURL *)

Pow2Of(o) == IF o = 0 THEN 1024 ELSE IF o = 6 THEN 16 ELSE IF o = 4 THEN 64 ELSE 256

\* character k (from 0) of the encoding: six bits of the byte string, zero
\* bits after its end
SextetAt(bytes, k) ==
    LET a == (6 * k) \div 8
        o == (6 * k) % 8
        hi == bytes[a + 1]
        lo == IF a + 2 <= Len(bytes) THEN bytes[a + 2] ELSE 0
    IN ((hi * 256 + lo) \div Pow2Of(o)) % 64

\* an encoder that leaves out a last group of one or two bytes
Base64EncodeFullGroups(bytes) ==
    [k \in 1..(4 * (Len(bytes) \div 3)) |-> B64Chars[SextetAt(bytes, k - 1) + 1]]

\* buffer.toString("base64"): four characters for every three bytes, the last
\* group padded with "="
Base64Encode(bytes) ==
    [k \in 1..(4 * ((Len(bytes) + 2) \div 3)) |->
        IF 6 * (k - 1) < 8 * Len(bytes)
        THEN B64Chars[SextetAt(bytes, k - 1) + 1]
        ELSE "="]

DataColon == <<"d","a","t","a",":">>
ImagePng == <<"i","m","a","g","e","/","p","n","g">>
ImageJpeg == <<"i","m","a","g","e","/","j","p","e","g">>

bufferToDataURL(buffer, mimeType) ==
    DataColon \o mimeType \o Base64Marker \o Base64Encode(buffer)

\* validatePNGFormat
pngSignature == <<137, 80, 78, 71, 13, 10, 26, 10>>

\* a check of the first byte alone
validatePNGFormatFirstByte(buffer) == Len(buffer) >= 1 /\ buffer[1] = pngSignature[1]

validatePNGFormat(buffer) ==
    IF Len(buffer) < 8 THEN FALSE
    ELSE SubSeq(buffer, 1, 8) = pngSignature

\* the buffers the utilities are run on: short ones over a few byte values,
\* and the signature cut short, with one byte changed, and with bytes after it
ByteAlphabet == {0, 65, 137, 255}
ShortBuffers == UNION {[1..k -> ByteAlphabet] : k \in 0..MaxBytesLen}
SignatureLike ==
    {SubSeq(pngSignature, 1, k) : k \in 0..8}
    \cup {[pngSignature EXCEPT ![i] = 0] : i \in 1..8}
    \cup {[pngSignature EXCEPT ![i] = @ + 1] : i \in 1..8}
Buffers == {h \o tl : h \in SignatureLike, tl \in ShortBuffers}

-----------------------------------------------------------------------------
(* JavaScript values of the argument objects *)

\* t is the typeof tag.  A number is n + frac/10 with frac in 0..9.  A string
\* is either atomic (s, of length len) or given by its characters (cs).  An
\* array has its items in a.
Undef == [t |-> "undefined"]
NumF(x, f) == [t |-> "number", n |-> x, frac |-> f]
Num(x) == NumF(x, 0)
Bool(b) == [t |-> "boolean", b |-> b]
StrL(x, l) == [t |-> "string", s |-> x, len |-> l, cs |-> <<>>]
Chars(c) == [t |-> "string", s |-> "", len |-> Len(c), cs |-> c]
Arr(items) == [t |-> "array", a |-> items]

\* an object: the keys that hold a value; obj[k] of a missing key is undefined
Obj(f) == [k \in {x \in DOMAIN f : f[x] # Undef} |-> f[k]]
Get(obj, k) == IF k \in DOMAIN obj THEN obj[k] ELSE Undef
EmptyObject == [k \in {} |-> Undef]

\* comparisons of a number value with an integer
Gt(v, k) == v.t = "number" /\ (v.n > k \/ (v.n = k /\ v.frac > 0))
Ge(v, k) == v.t = "number" /\ v.n >= k
Lt(v, k) == v.t = "number" /\ v.n < k
Le(v, k) == v.t = "number" /\ (v.n < k \/ (v.n = k /\ v.frac = 0))

\* JavaScript truthiness: undefined, false, 0 and the empty string are falsy
Truthy(v) ==
    \/ v.t = "number" /\ (v.n # 0 \/ v.frac # 0)
    \/ v.t = "boolean" /\ v.b
    \/ v.t = "string" /\ v.len > 0
    \/ v.t = "array"

-----------------------------------------------------------------------------
(* Outcomes of a decoder: a Buffer, or a thrown error *)

NoOutcome == [kind |-> "none", bytes |-> <<>>, errClass |-> "", msg |-> <<>>]
Payload(b) == [kind |-> "payload", bytes |-> b, errClass |-> "", msg |-> <<>>]
Thrown(cls, m) == [kind |-> "error", bytes |-> <<>>, errClass |-> cls, msg |-> m]

\* what fetch(url) can answer: a 2xx response with a body, another status, or
\* a rejection (DNS, connection)
FetchOk(body) ==
    [rejected |-> FALSE, ok |-> TRUE, status |-> "200", statusText |-> "OK",
     body |-> body, message |-> ""]
FetchStatus(st, txt) ==
    [rejected |-> FALSE, ok |-> FALSE, status |-> st, statusText |-> txt,
     body |-> <<>>, message |-> ""]
FetchRejected(m) ==
    [rejected |-> TRUE, ok |-> FALSE, status |-> "", statusText |-> "",
     body |-> <<>>, message |-> m]

\* no fetch has been answered
NoResponse ==
    [rejected |-> FALSE, ok |-> FALSE, status |-> "", statusText |-> "",
     body |-> <<>>, message |-> ""]

FetchResponses ==
    {FetchOk(<<137, 80>>), FetchStatus("404", "Not Found"), FetchRejected("fetch failed")}

IsUrl(s) == startsWith(s, Http) \/ startsWith(s, Https)

-----------------------------------------------------------------------------
(* imageToBuffer, the exported utility *)

\* the branches of the utility that run on s
UtilBranchesReturnMissing(s) ==
    (IF IsUrl(s) THEN {"url"} ELSE {})
    \cup (IF startsWith(s, DataImage) THEN {"data"} ELSE {})
    \cup {"raw"}

UtilBranches(s) ==
    IF IsUrl(s) THEN {"url"}
    ELSE IF startsWith(s, DataImage) THEN {"data"}
    ELSE {"raw"}

\* the data URL branch
UtilDataURL(s) ==
    LET m == DataURLMatch(s)
    IN IF ~m.matched
       THEN Thrown("Error", <<"Invalid data URL format">>)
       ELSE IF m.format # Png
       THEN Thrown("Error", <<"Unsupported image format: ">> \o m.format
                              \o <<". Only PNG is supported.">>)
       ELSE Payload(Base64Decode(m.base64Data))

\* the raw branch: the catch around Buffer.from never runs
UtilRaw(s) == Payload(Base64Decode(s))

\* the URL branch once fetch has settled; the throw of line 141 is caught at
\* line 147 and wrapped again
UtilFetched(resp) ==
    IF resp.rejected
    THEN Thrown("Error", <<"Error fetching image from URL: ", resp.message>>)
    ELSE IF ~resp.ok
    THEN Thrown("Error", <<"Error fetching image from URL: ",
                           "Failed to fetch image from URL: ",
                           resp.status, " ", resp.statusText>>)
    ELSE Payload(resp.body)

\* the part of the utility that runs without waiting
UtilSync(s) ==
    IF "raw" \in UtilBranches(s) THEN UtilRaw(s)
    ELSE IF "data" \in UtilBranches(s) THEN UtilDataURL(s)
    ELSE NoOutcome

-----------------------------------------------------------------------------
(* imageToBuffer, the helper local to the full registry's handler *)

LocalBranches(s) ==
    IF IsUrl(s) THEN {"url"}
    ELSE IF startsWith(s, DataImage) THEN {"data"}
    ELSE {"raw"}

\* imageData.split(",")[1]: the text between the first and the second comma,
\* undefined when there is no comma
SplitSecond(s) ==
    LET p == IndexOf(s, ",")
        rest == DropFirst(s, p)
        q == IndexOf(rest, ",")
    IN IF p = 0 THEN Undef
       ELSE IF q = 0 THEN Chars(rest)
       ELSE Chars(SubSeq(rest, 1, q - 1))

\* Buffer.from(undefined, "base64") throws a TypeError
LocalDataURL(s) ==
    LET base64Data == SplitSecond(s)
    IN IF base64Data.t = "undefined"
       THEN Thrown("TypeError", <<"The first argument must be of type string">>)
       ELSE Payload(Base64Decode(base64Data.cs))

LocalRaw(s) == Payload(Base64Decode(s))

\* a rejected fetch is not caught here
LocalFetched(resp) ==
    IF resp.rejected
    THEN Thrown("TypeError", <<resp.message>>)
    ELSE IF ~resp.ok
    THEN Thrown("Error", <<"Failed to fetch image from URL: ", resp.statusText>>)
    ELSE Payload(resp.body)

LocalSync(s) ==
    IF "raw" \in LocalBranches(s) THEN LocalRaw(s)
    ELSE IF "data" \in LocalBranches(s) THEN LocalDataURL(s)
    ELSE NoOutcome

-----------------------------------------------------------------------------
(* Image arguments to decode *)

PayloadAlphabet == {"A", "Q", "=", "!", ","}

\* every text over the alphabet of length 0..n
TextsUpTo(n) == UNION {[1..k -> PayloadAlphabet] : k \in 0..n}

\* each payload text bare, as a PNG and as a JPEG data URL, and behind a URL
Wrappings(p) ==
    {p,
     DataImageSlash \o Png \o Base64Marker \o p,
     DataImageSlash \o Jpeg \o Base64Marker \o p,
     DataImageSlash \o Png \o <<",">> \o p,
     DataImage \o p,
     Https \o p,
     Http \o p}

DataInvalid == <<"d","a","t","a",":","i","n","v","a","l","i","d">>
JpegAAAA == DataImageSlash \o Jpeg \o Base64Marker \o <<"A","A","A","A">>
PngQUJD == DataImageSlash \o Png \o Base64Marker \o <<"Q","U","J","D">>

ImageStrings ==
    UNION {Wrappings(p) : p \in TextsUpTo(MaxPayloadLen)}
    \cup {DataInvalid, JpegAAAA, PngQUJD}

-----------------------------------------------------------------------------
(* The utilities are run one at a time; img is one run of one of the two    *)
(* decoders                                                                *)

ImgIdle ==
    [impl |-> "none", s |-> <<>>, pc |-> "idle", branches |-> {}, fetches |-> 0,
     resp |-> NoResponse, out |-> NoOutcome]

\* the decoder is entered and runs to its first await, or to its end
ImgStart ==
    /\ img.pc = "idle"
    /\ dalle.pc = "idle"
    /\ util.pc = "idle" \/ util.fn = "bufferToDataURL"
    /\ \E impl \in {"utility", "local"} :
       \E s \in (IF util.pc = "idle" THEN ImageStrings ELSE {util.res}) :
       LET b == IF impl = "utility" THEN UtilBranches(s) ELSE LocalBranches(s)
           o == IF impl = "utility" THEN UtilSync(s) ELSE LocalSync(s)
       IN img' = [impl |-> impl, s |-> s,
                  pc |-> IF "url" \in b THEN "fetching" ELSE "done",
                  branches |-> b,
                  fetches |-> IF "url" \in b THEN 1 ELSE 0,
                  resp |-> NoResponse,
                  out |-> o]
    /\ UNCHANGED <<registry, call, dalle, util, process>>

\* fetch settles; when a later branch also runs, its outcome is the result
ImgFetched ==
    /\ img.pc = "fetching"
    /\ \E resp \in FetchResponses :
       LET fetched == IF img.impl = "utility" THEN UtilFetched(resp) ELSE LocalFetched(resp)
       IN img' = [img EXCEPT !.pc = "done", !.resp = resp,
                             !.out = IF img.out.kind = "none" THEN fetched ELSE img.out]
    /\ UNCHANGED <<registry, call, dalle, util, process>>

ImgReturn ==
    /\ img.pc = "done"
    /\ img' = ImgIdle
    /\ UNCHANGED <<registry, call, dalle, util, process>>

-----------------------------------------------------------------------------
(* validateDALLEParams *)

\* an enum string; of its length only "not empty" is ever read
Atom(x) == StrL(x, 1)

ErrD3N == "DALL-E 3 only supports n=1"
ErrD3Size == "DALL-E 3 only supports sizes: 1024x1024, 1792x1024, 1024x1792"
ErrD2Quality == "DALL-E 2 does not support 'hd' quality"
ErrD2Style == "DALL-E 2 does not support 'style' parameter"
ErrD2Size == "DALL-E 2 only supports sizes: 256x256, 512x512, 1024x1024"

D3Sizes == {"1024x1024", "1792x1024", "1024x1792"}
D2Sizes == {"256x256", "512x512", "1024x1024"}

\* the five conditions, shared by the utility and by the handler's inline copy
\* a count rule that one image already breaks
D3NViolatedFromOne(params) == Truthy(params.n) /\ Ge(params.n, 1)

D3NViolated(params) == Truthy(params.n) /\ Gt(params.n, 1)
D3SizeViolated(params) ==
    Truthy(params.size) /\ ~(params.size.t = "string" /\ params.size.s \in D3Sizes)
D2QualityViolated(params) == params.quality = Atom("hd")
D2StyleViolated(params) == Truthy(params.style)
D2SizeViolated(params) ==
    Truthy(params.size) /\ ~(params.size.t = "string" /\ params.size.s \in D2Sizes)

IfSeq(c, x) == IF c THEN <<x>> ELSE <<>>

\* a utility that stops at the first rule it finds violated
validateDALLEParamsFirstOnly(params) ==
    LET all ==
          IF params.model = Atom("dall-e-3")
          THEN IfSeq(D3NViolated(params), ErrD3N) \o IfSeq(D3SizeViolated(params), ErrD3Size)
          ELSE IF params.model = Atom("dall-e-2")
          THEN IfSeq(D2QualityViolated(params), ErrD2Quality)
               \o IfSeq(D2StyleViolated(params), ErrD2Style)
               \o IfSeq(D2SizeViolated(params), ErrD2Size)
          ELSE <<>>
        errors == IF all = <<>> THEN <<>> ELSE <<all[1]>>
    IN [valid |-> errors = <<>>, errors |-> errors]

validateDALLEParams(params) ==
    LET errors ==
          IF params.model = Atom("dall-e-3")
          THEN IfSeq(D3NViolated(params), ErrD3N) \o IfSeq(D3SizeViolated(params), ErrD3Size)
          ELSE IF params.model = Atom("dall-e-2")
          THEN IfSeq(D2QualityViolated(params), ErrD2Quality)
               \o IfSeq(D2StyleViolated(params), ErrD2Style)
               \o IfSeq(D2SizeViolated(params), ErrD2Size)
          ELSE <<>>
    IN [valid |-> errors = <<>>, errors |-> errors]

\* the arguments the utility is run on: n up to one past the schema's maximum
ImageCountMin == 1
ImageCountMax == 10

ModelValues == {Atom("dall-e-2"), Atom("dall-e-3"), Atom("gpt-4o")}
SizeValues ==
    {Undef, Atom("64x64")} \cup {Atom(x) : x \in D2Sizes \cup D3Sizes}
QualityValues == {Undef, Atom("standard"), Atom("hd")}
StyleValues == {Undef, Atom("vivid"), Atom("natural")}
CountValues == {Undef, NumF(1, 5)} \cup {Num(x) : x \in 0..(ImageCountMax + 1)}

DalleParams ==
    [model : ModelValues, size : SizeValues, quality : QualityValues,
     style : StyleValues, n : CountValues]

DalleIdle ==
    [pc |-> "idle",
     params |-> [model |-> Undef, size |-> Undef, quality |-> Undef, style |-> Undef,
                 n |-> Undef],
     res |-> [valid |-> TRUE, errors |-> <<>>]]

DalleValidate ==
    /\ dalle.pc = "idle"
    /\ img.pc = "idle"
    /\ util.pc = "idle"
    /\ \E params \in DalleParams :
         dalle' = [pc |-> "done", params |-> params, res |-> validateDALLEParams(params)]
    /\ UNCHANGED <<registry, call, img, util, process>>

DalleReturn ==
    /\ dalle.pc = "done"
    /\ dalle' = DalleIdle
    /\ UNCHANGED <<registry, call, img, util, process>>

-----------------------------------------------------------------------------
(* The synchronous utilities, one call at a time *)

UtilIdle == [pc |-> "idle", fn |-> "", arg |-> <<>>, res |-> <<>>]

UtilCalled(fn, arg, res) == [pc |-> "done", fn |-> fn, arg |-> arg, res |-> res]

AllIdle == img.pc = "idle" /\ dalle.pc = "idle" /\ util.pc = "idle"

\* bufferToDataURL(buffer) and bufferToDataURL(buffer, mimeType); what it
\* returns may then be handed to a decoder
BufferToDataURL ==
    /\ AllIdle
    /\ \E buffer \in Buffers : \E mimeType \in {ImagePng, ImageJpeg} :
         util' = UtilCalled("bufferToDataURL", <<buffer, mimeType>>,
                            bufferToDataURL(buffer, mimeType))
    /\ UNCHANGED <<registry, call, img, dalle, process>>

ValidatePNGFormat ==
    /\ AllIdle
    /\ \E buffer \in Buffers :
         util' = UtilCalled("validatePNGFormat", <<buffer>>, validatePNGFormat(buffer))
    /\ UNCHANGED <<registry, call, img, dalle, process>>

\* isValidImageSize: a table of sizes by model, false for a model without row
isValidImageSizeOfAnyModel(size, model) == size \in D2Sizes \cup D3Sizes

isValidImageSize(size, model) ==
    IF model = "dall-e-2" THEN size \in D2Sizes
    ELSE IF model = "dall-e-3" THEN size \in D3Sizes
    ELSE FALSE

SizeStrings == D2Sizes \cup D3Sizes \cup {"64x64", ""}
ModelStrings == {"dall-e-2", "dall-e-3", "gpt-4o"}

IsValidImageSize ==
    /\ AllIdle
    /\ \E size \in SizeStrings : \E model \in ModelStrings :
         util' = UtilCalled("isValidImageSize", <<size, model>>,
                            isValidImageSize(size, model))
    /\ UNCHANGED <<registry, call, img, dalle, process>>

\* Math.pow(2, attempt) for a whole attempt
RECURSIVE MathPow2(_)
MathPow2(attempt) == IF attempt = 0 THEN 1 ELSE 2 * MathPow2(attempt - 1)

MathMin(a, b) == IF a < b THEN a ELSE b

\* the ceiling of the delay and the baseDelay a call without one gets
BackoffCeiling == 32000
DefaultBaseDelay == 1000

\* a backoff without its ceiling
exponentialBackoffUncapped(attempt, baseDelay) == baseDelay * MathPow2(attempt)

exponentialBackoff(attempt, baseDelay) ==
    MathMin(baseDelay * MathPow2(attempt), BackoffCeiling)

\* highest attempt number and the base delays the model calls it with
MaxAttempt == 7
BaseDelays == {Num(b) : b \in {1, 250, 1000, 1500, 32000, 50000}}

\* exponentialBackoff(attempt) and exponentialBackoff(attempt, baseDelay)
ExponentialBackoff ==
    /\ AllIdle
    /\ \E attempt \in 0..MaxAttempt : \E baseDelay \in BaseDelays \cup {Undef} :
         util' = UtilCalled("exponentialBackoff", <<attempt, baseDelay>>,
                            exponentialBackoff(attempt,
                                               IF baseDelay = Undef THEN DefaultBaseDelay
                                               ELSE baseDelay.n))
    /\ UNCHANGED <<registry, call, img, dalle, process>>

\* the characters of the class \s that the prompts of the model hold
IsWhiteSpace(ch) == ch \in {" ", "\t", "\n"}

RECURSIVE TrimStart(_)
TrimStart(s) ==
    IF s # <<>> /\ IsWhiteSpace(s[1]) THEN TrimStart(Tail(s)) ELSE s

RECURSIVE TrimEnd(_)
TrimEnd(s) ==
    IF s # <<>> /\ IsWhiteSpace(s[Len(s)]) THEN TrimEnd(SubSeq(s, 1, Len(s) - 1)) ELSE s

\* String.prototype.trim
Trim(s) == TrimEnd(TrimStart(s))

\* replace(/\s+/g, " "): every longest run of white space becomes one space
RECURSIVE ReplaceWhiteSpaceRuns(_)
ReplaceWhiteSpaceRuns(s) ==
    IF s = <<>> THEN <<>>
    ELSE IF IsWhiteSpace(s[1])
    THEN <<" ">> \o ReplaceWhiteSpaceRuns(TrimStart(s))
    ELSE <<s[1]>> \o ReplaceWhiteSpaceRuns(Tail(s))

\* substring(0, end) for a whole end that is not negative
Substring0(s, end) == SubSeq(s, 1, IF end < Len(s) THEN end ELSE Len(s))

\* the maxLength a call without one gets
DefaultMaxLength == 4000

sanitizePrompt(prompt, maxLength) ==
    LET sanitized == ReplaceWhiteSpaceRuns(Trim(prompt))
    IN IF Len(sanitized) > maxLength THEN Substring0(sanitized, maxLength) ELSE sanitized

\* longest prompt and largest maxLength the model calls sanitizePrompt with
MaxPromptLen == 4
MaxMaxLength == 4
PromptChars == {"a", " ", "\t", "\n"}
Prompts == UNION {[1..k -> PromptChars] : k \in 0..MaxPromptLen}

\* sanitizePrompt(prompt) and sanitizePrompt(prompt, maxLength)
SanitizePrompt ==
    /\ AllIdle
    /\ \E prompt \in Prompts : \E maxLength \in {Num(m) : m \in 0..MaxMaxLength} \cup {Undef} :
         util' = UtilCalled("sanitizePrompt", <<prompt, maxLength>>,
                            sanitizePrompt(prompt,
                                           IF maxLength = Undef THEN DefaultMaxLength
                                           ELSE maxLength.n))
    /\ UNCHANGED <<registry, call, img, dalle, process>>

UtilReturn ==
    /\ util.pc = "done"
    /\ img.pc = "idle"
    /\ util' = UtilIdle
    /\ UNCHANGED <<registry, call, img, dalle, process>>

-----------------------------------------------------------------------------
(* zod: the field contracts and parse() *)

Fields ==
    {"messages", "model", "temperature", "max_tokens", "top_p", "frequency_penalty",
     "presence_penalty", "n", "stream", "stop", "user", "input", "encoding_format",
     "dimensions", "prompt", "quality", "response_format", "size", "style", "image",
     "mask", "extra"}

NoArgs == [f \in Fields |-> Undef]

\* a required field of the given kind with no checks
ZField(name, kind) ==
    [name |-> name, kind |-> kind, optional |-> FALSE, default |-> Undef,
     hasMin |-> FALSE, lo |-> 0, loText |-> "", hasMax |-> FALSE, hi |-> 0, hiText |-> "",
     positive |-> FALSE, hasMaxLen |-> FALSE, maxLen |-> 0, maxLenText |-> "",
     enum |-> {}, enumText |-> "", hasName |-> FALSE]

ZString(name) == ZField(name, "string")
ZNumber(name) == ZField(name, "number")
ZBoolean(name) == ZField(name, "boolean")
ZStringOrArray(name) == ZField(name, "stringOrArray")
ZEnum(name, values, text) == [ZField(name, "enum") EXCEPT !.enum = values, !.enumText = text]
ZMessages(name, roles, text, named) ==
    [ZField(name, "messages") EXCEPT !.enum = roles, !.enumText = text, !.hasName = named]
Min(f, lo, text) == [f EXCEPT !.hasMin = TRUE, !.lo = lo, !.loText = text]
Max(f, hi, text) == [f EXCEPT !.hasMax = TRUE, !.hi = hi, !.hiText = text]
Positive(f) == [f EXCEPT !.positive = TRUE]
MaxLen(f, l, text) == [f EXCEPT !.hasMaxLen = TRUE, !.maxLen = l, !.maxLenText = text]
Optional(f) == [f EXCEPT !.optional = TRUE]
Default(f, v) == [f EXCEPT !.default = v]

Issue(path, message) == [path |-> path, message |-> message]
IdxText == <<"0", "1", "2", "3">>

RECURSIVE Flatten(_)
Flatten(ss) == IF ss = <<>> THEN <<>> ELSE Head(ss) \o Flatten(Tail(ss))

\* the issues of one message object at index i (from 0)
MessageIssues(f, item, i) ==
    LET at(key) == <<f.name, ".", IdxText[i + 1], ".", key>>
    IN IfSeq(item.role.t = "undefined", Issue(at("role"), <<"Required">>))
       \o IfSeq(item.role.t \notin {"undefined", "string"},
                Issue(at("role"), <<"Expected ", f.enumText, ", received ", item.role.t>>))
       \o IfSeq(item.role.t = "string" /\ item.role.s \notin f.enum,
                Issue(at("role"), <<"Invalid enum value. Expected ", f.enumText,
                                    ", received '", item.role.s, "'">>))
       \o IfSeq(item.content.t = "undefined", Issue(at("content"), <<"Required">>))
       \o IfSeq(item.content.t \notin {"undefined", "string"},
                Issue(at("content"), <<"Expected string, received ", item.content.t>>))
       \o IfSeq(f.hasName /\ item.name.t \notin {"undefined", "string"},
                Issue(at("name"), <<"Expected string, received ", item.name.t>>))

\* the issues of a present value v against the field contract f
ValueIssues(f, v) ==
    LET here == <<f.name>>
    IN CASE f.kind = "string" ->
              IF v.t # "string"
              THEN <<Issue(here, <<"Expected string, received ", v.t>>)>>
              ELSE IfSeq(f.hasMaxLen /\ v.len > f.maxLen,
                         Issue(here, <<"String must contain at most ", f.maxLenText,
                                       " character(s)">>))
         [] f.kind = "number" ->
              IF v.t # "number"
              THEN <<Issue(here, <<"Expected number, received ", v.t>>)>>
              ELSE IfSeq(f.hasMin /\ ~Ge(v, f.lo),
                         Issue(here, <<"Number must be greater than or equal to ", f.loText>>))
                   \o IfSeq(f.hasMax /\ ~Le(v, f.hi),
                            Issue(here, <<"Number must be less than or equal to ", f.hiText>>))
                   \o IfSeq(f.positive /\ ~Gt(v, 0),
                            Issue(here, <<"Number must be greater than 0">>))
         [] f.kind = "boolean" ->
              IfSeq(v.t # "boolean", Issue(here, <<"Expected boolean, received ", v.t>>))
         [] f.kind = "enum" ->
              IF v.t # "string"
              THEN <<Issue(here, <<"Expected ", f.enumText, ", received ", v.t>>)>>
              ELSE IfSeq(v.s \notin f.enum,
                         Issue(here, <<"Invalid enum value. Expected ", f.enumText,
                                       ", received '", v.s, "'">>))
         [] f.kind = "stringOrArray" ->
              IfSeq(~(\/ v.t = "string"
                      \/ v.t = "array" /\ \A i \in 1..Len(v.a) : v.a[i].t = "string"),
                    Issue(here, <<"Invalid input">>))
         [] f.kind = "messages" ->
              IF v.t # "array"
              THEN <<Issue(here, <<"Expected array, received ", v.t>>)>>
              ELSE Flatten([i \in 1..Len(v.a) |-> MessageIssues(f, v.a[i], i - 1)])

\* a check of one key that knows no defaults: an absent value stays absent
CheckFieldWithoutDefault(f, v) ==
    IF v.t = "undefined"
    THEN IF f.optional \/ f.default.t # "undefined" THEN [issues |-> <<>>, value |-> Undef]
         ELSE [issues |-> <<Issue(<<f.name>>, <<"Required">>)>>, value |-> Undef]
    ELSE [issues |-> ValueIssues(f, v), value |-> v]

\* one key of the object: an absent value takes the default, which goes
\* through the checks of the field like a supplied value, or stays absent when
\* the field is optional, or is reported
CheckField(f, v) ==
    IF v.t = "undefined"
    THEN IF f.default.t # "undefined"
         THEN [issues |-> ValueIssues(f, f.default), value |-> f.default]
         ELSE IF f.optional THEN [issues |-> <<>>, value |-> Undef]
         ELSE [issues |-> <<Issue(<<f.name>>,
                                   IF f.kind = "stringOrArray" THEN <<"Invalid input">>
                                   ELSE <<"Required">>)>>,
               value |-> Undef]
    ELSE [issues |-> ValueIssues(f, v), value |-> v]

\* an object parse that gives up at the first key with an issue
ParseFirstIssueOnly(schema, args) ==
    LET checked == [i \in 1..Len(schema) |-> CheckField(schema[i], Get(args, schema[i].name))]
        all == Flatten([i \in 1..Len(schema) |-> checked[i].issues])
    IN [issues |-> IF all = <<>> THEN <<>> ELSE <<all[1]>>,
        data |-> Obj([k \in {schema[i].name : i \in 1..Len(schema)} |->
                        checked[CHOOSE i \in 1..Len(schema) : schema[i].name = k].value])]

\* a parse that lets the keys outside the shape through
ParsePassthrough(schema, args) ==
    LET checked == [i \in 1..Len(schema) |-> CheckField(schema[i], Get(args, schema[i].name))]
        shape == {schema[i].name : i \in 1..Len(schema)}
    IN [issues |-> Flatten([i \in 1..Len(schema) |-> checked[i].issues]),
        data |-> Obj([k \in shape \cup DOMAIN args |->
                        IF k \in shape
                        THEN checked[CHOOSE i \in 1..Len(schema) : schema[i].name = k].value
                        ELSE args[k]])]

\* schema.parse(args): every key of the shape is checked, the issues of all of
\* them are collected in the order of the shape, and keys outside the shape
\* are dropped
Parse(schema, args) ==
    LET checked == [i \in 1..Len(schema) |-> CheckField(schema[i], Get(args, schema[i].name))]
    IN [issues |-> Flatten([i \in 1..Len(schema) |-> checked[i].issues]),
        data |-> Obj([k \in {schema[i].name : i \in 1..Len(schema)} |->
                        checked[CHOOSE i \in 1..Len(schema) : schema[i].name = k].value])]

\* error.errors.map((e) => `${e.path.join(".")}: ${e.message}`).join(", ")
RECURSIVE JoinIssues(_)
JoinIssues(issues) ==
    IF issues = <<>> THEN <<>>
    ELSE Head(issues).path \o <<": ">> \o Head(issues).message
         \o (IF Tail(issues) = <<>> THEN <<>> ELSE <<", ">> \o JoinIssues(Tail(issues)))

-----------------------------------------------------------------------------
(* The schemas of the full registry *)

PromptMaxLen == 4000

FullRolesText == "'system' | 'user' | 'assistant' | 'function' | 'tool'"
ReducedRolesText == "'system' | 'user' | 'assistant'"
ModelsText == "'dall-e-2' | 'dall-e-3'"
QualityText == "'standard' | 'hd'"
FormatText == "'url' | 'b64_json'"
SizesText == "'256x256' | '512x512' | '1024x1024' | '1792x1024' | '1024x1792'"
SquareSizesText == "'256x256' | '512x512' | '1024x1024'"
StyleText == "'vivid' | 'natural'"
EncodingText == "'float' | 'base64'"

ChatCompletionSchema ==
    <<Default(ZString("model"), Atom("gpt-4o")),
      ZMessages("messages", {"system", "user", "assistant", "function", "tool"},
                FullRolesText, TRUE),
      Default(Optional(Max(Min(ZNumber("temperature"), 0, "0"), 2, "2")), Num(1)),
      Optional(Positive(ZNumber("max_tokens"))),
      Optional(Max(Min(ZNumber("top_p"), 0, "0"), 1, "1")),
      Optional(Max(Min(ZNumber("frequency_penalty"), -2, "-2"), 2, "2")),
      Optional(Max(Min(ZNumber("presence_penalty"), -2, "-2"), 2, "2")),
      Default(Optional(Positive(ZNumber("n"))), Num(1)),
      Default(Optional(ZBoolean("stream")), Bool(FALSE)),
      Optional(ZStringOrArray("stop")),
      Optional(ZString("user"))>>

CreateEmbeddingSchema ==
    <<Default(ZString("model"), Atom("text-embedding-3-small")),
      ZStringOrArray("input"),
      Optional(ZEnum("encoding_format", {"float", "base64"}, EncodingText)),
      Optional(Positive(ZNumber("dimensions"))),
      Optional(ZString("user"))>>

GenerateImageSchema ==
    <<MaxLen(ZString("prompt"), PromptMaxLen, "4000"),
      Default(ZEnum("model", {"dall-e-2", "dall-e-3"}, ModelsText), Atom("dall-e-3")),
      Default(Optional(Max(Min(ZNumber("n"), ImageCountMin, "1"), ImageCountMax, "10")),
              Num(1)),
      Default(Optional(ZEnum("quality", {"standard", "hd"}, QualityText)), Atom("standard")),
      Default(Optional(ZEnum("response_format", {"url", "b64_json"}, FormatText)),
              Atom("url")),
      Default(Optional(ZEnum("size", D2Sizes \cup D3Sizes, SizesText)), Atom("1024x1024")),
      Default(Optional(ZEnum("style", {"vivid", "natural"}, StyleText)), Atom("vivid")),
      Optional(ZString("user"))>>

EditImageSchema ==
    <<ZString("image"),
      Optional(ZString("mask")),
      MaxLen(ZString("prompt"), PromptMaxLen, "4000"),
      Default(ZEnum("model", {"dall-e-2"}, "'dall-e-2'"), Atom("dall-e-2")),
      Default(Optional(Max(Min(ZNumber("n"), ImageCountMin, "1"), ImageCountMax, "10")),
              Num(1)),
      Default(Optional(ZEnum("size", D2Sizes, SquareSizesText)), Atom("1024x1024")),
      Default(Optional(ZEnum("response_format", {"url", "b64_json"}, FormatText)),
              Atom("url")),
      Optional(ZString("user"))>>

CreateImageVariationSchema ==
    <<ZString("image"),
      Default(ZEnum("model", {"dall-e-2"}, "'dall-e-2'"), Atom("dall-e-2")),
      Default(Optional(Max(Min(ZNumber("n"), ImageCountMin, "1"), ImageCountMax, "10")),
              Num(1)),
      Default(Optional(ZEnum("response_format", {"url", "b64_json"}, FormatText)),
              Atom("url")),
      Default(Optional(ZEnum("size", D2Sizes, SquareSizesText)), Atom("1024x1024")),
      Optional(ZString("user"))>>

(* The schemas of the reduced registry *)

ChatCompletionArgsSchema ==
    <<ZMessages("messages", {"system", "user", "assistant"}, ReducedRolesText, FALSE),
      Default(ZString("model"), Atom("gpt-4o")),
      Default(Optional(Max(Min(ZNumber("temperature"), 0, "0"), 2, "2")), NumF(0, 7)),
      Optional(Positive(ZNumber("max_tokens"))),
      Optional(Max(Min(ZNumber("top_p"), 0, "0"), 1, "1")),
      Optional(Max(Min(ZNumber("frequency_penalty"), -2, "-2"), 2, "2")),
      Optional(Max(Min(ZNumber("presence_penalty"), -2, "-2"), 2, "2"))>>

GenerateEmbeddingsArgsSchema ==
    <<ZStringOrArray("input"),
      Default(ZString("model"), Atom("text-embedding-3-small")),
      Optional(ZEnum("encoding_format", {"float", "base64"}, EncodingText)),
      Optional(Positive(ZNumber("dimensions")))>>

ModerateContentArgsSchema ==
    <<ZStringOrArray("input"),
      Default(ZString("model"), Atom("omni-moderation-latest"))>>

\* the names each handler's switch has a case for
FullTools ==
    {"chat_completion", "create_embedding", "generate_image", "edit_image",
     "create_image_variation", "list_models"}
ReducedTools == {"chat_completion", "generate_embeddings", "list_models", "moderate_content"}

ToolsOf(reg) == IF reg = "full" THEN FullTools ELSE ReducedTools

\* the schema a case parses its arguments with; list_models parses nothing
SchemaOf(reg, name) ==
    IF reg = "full"
    THEN CASE name = "chat_completion" -> ChatCompletionSchema
           [] name = "create_embedding" -> CreateEmbeddingSchema
           [] name = "generate_image" -> GenerateImageSchema
           [] name = "edit_image" -> EditImageSchema
           [] name = "create_image_variation" -> CreateImageVariationSchema
           [] OTHER -> <<>>
    ELSE CASE name = "chat_completion" -> ChatCompletionArgsSchema
           [] name = "generate_embeddings" -> GenerateEmbeddingsArgsSchema
           [] name = "moderate_content" -> ModerateContentArgsSchema
           [] OTHER -> <<>>

-----------------------------------------------------------------------------
(* Errors, upstream replies and results *)

NoError == [errClass |-> "", code |-> "", msg |-> <<>>, status |-> "", issues |-> <<>>]
PlainError(m) == [NoError EXCEPT !.errClass = "Error", !.msg = m]
ErrorOf(outcome) == [NoError EXCEPT !.errClass = outcome.errClass, !.msg = outcome.msg]
ZodError(issues) == [NoError EXCEPT !.errClass = "ZodError", !.issues = issues]
APIError(status, m) == [NoError EXCEPT !.errClass = "APIError", !.status = status, !.msg = m]
McpError(code, m) == [NoError EXCEPT !.errClass = "McpError", !.code = code, !.msg = m]

\* a response object of the upstream API
Response(choices) ==
    [model |-> "gpt-4o", usage |-> "usage", choices |-> choices, data |-> <<"d1">>,
     results |-> <<"r1">>]

Choice == [message |-> "hello", finish_reason |-> "stop"]

UpstreamOk(resp) == [ok |-> TRUE, response |-> resp, error |-> NoError]
UpstreamFailed(status, m) ==
    [ok |-> FALSE, response |-> Response(<<>>), error |-> APIError(status, <<m>>)]

UpstreamReplies ==
    {UpstreamOk(Response(<<Choice>>)), UpstreamOk(Response(<<>>)),
     UpstreamFailed("404", "The model 'gpt-5' does not exist"),
     UpstreamFailed("429", "Rate limit exceeded")}

ResponseKeys == {"model", "usage", "choices", "data", "results"}

NoPayload == [keys |-> {}, response |-> Response(<<>>)]
NoResult == [kind |-> "none", error |-> NoError, payload |-> NoPayload]
Success(keys, resp) ==
    [kind |-> "success", error |-> NoError, payload |-> [keys |-> keys, response |-> resp]]
Failure(e) == [kind |-> "error", error |-> e, payload |-> NoPayload]

NoRequest == [endpoint |-> "", body |-> EmptyObject, image |-> NoOutcome, mask |-> NoOutcome]
NoReply == [ok |-> FALSE, response |-> Response(<<>>), error |-> NoError]

\* one tool call: where its handler stands, what it was given, what it built,
\* what the upstream API answered, and counters of what it has done so far;
\* failedAt records the stage whose throw ended the call
CallIdle ==
    [pc |-> "idle", name |-> "", args |-> EmptyObject, params |-> EmptyObject,
     schemaRuns |-> 0, upstreamCalls |-> 0, fetches |-> 0,
     imageBuffer |-> NoOutcome, maskBuffer |-> NoOutcome, request |-> NoRequest,
     fetched |-> NoResponse, reply |-> NoReply, failedAt |-> "", result |-> NoResult]

\* the handler ends by throwing e, raised at the named stage
Ends(cs, stage, e) == [cs EXCEPT !.pc = "done", !.failedAt = stage, !.result = Failure(e)]

\* the handler awaits the upstream client
Awaits(cs, endpoint, body) ==
    [cs EXCEPT !.pc = "upstream", !.upstreamCalls = @ + 1,
               !.request = [endpoint |-> endpoint, body |-> body,
                            image |-> cs.imageBuffer, mask |-> cs.maskBuffer]]

\* only the named keys of the validated arguments
Pick(params, keys) == [k \in DOMAIN params \cap keys |-> params[k]]

-----------------------------------------------------------------------------
(* The handler of the full registry *)

\* the catch of the handler: a ZodError and an APIError are rewritten, any
\* other error is thrown on as it is
FullCatch(e) ==
    IF e.errClass = "ZodError"
    THEN PlainError(<<"Invalid input parameters: ">> \o JoinIssues(e.issues))
    ELSE IF e.errClass = "APIError"
    THEN PlainError(<<"OpenAI API error (", e.status, "): ">> \o e.msg)
    ELSE e

FullThrows(cs, stage, e) == Ends(cs, stage, FullCatch(e))

\* inline checks that look at the size before the count
GenerateImageCheckSizeFirst(params) ==
    IF params.model = Atom("dall-e-3") /\ D3SizeViolated(params) THEN ErrD3Size
    ELSE IF params.model = Atom("dall-e-3") /\ D3NViolated(params) THEN ErrD3N
    ELSE IF params.model = Atom("dall-e-2") /\ D2QualityViolated(params) THEN ErrD2Quality
    ELSE IF params.model = Atom("dall-e-2") /\ D2StyleViolated(params) THEN ErrD2Style
    ELSE IF params.model = Atom("dall-e-2") /\ D2SizeViolated(params) THEN ErrD2Size
    ELSE ""

\* the inline model checks of case "generate_image": the first violated rule
\* throws, "" when none does
GenerateImageCheck(params) ==
    IF params.model = Atom("dall-e-3") /\ D3NViolated(params) THEN ErrD3N
    ELSE IF params.model = Atom("dall-e-3") /\ D3SizeViolated(params) THEN ErrD3Size
    ELSE IF params.model = Atom("dall-e-2") /\ D2QualityViolated(params) THEN ErrD2Quality
    ELSE IF params.model = Atom("dall-e-2") /\ D2StyleViolated(params) THEN ErrD2Style
    ELSE IF params.model = Atom("dall-e-2") /\ D2SizeViolated(params) THEN ErrD2Size
    ELSE ""

\* a case that asks the upstream API first and checks the model rules after
FullGenerateImageCallsFirst(cs) ==
    IF GenerateImageCheck(cs.params) # ""
    THEN FullThrows([cs EXCEPT !.upstreamCalls = @ + 1], "constraint",
                    PlainError(<<GenerateImageCheck(cs.params)>>))
    ELSE Awaits(cs, "images.generate", cs.params)

\* a case that checks the model rules on the arguments as the caller gave them
FullGenerateImageOnRawArguments(cs) ==
    LET raw == [k \in {"model", "n", "quality", "size", "style"} |-> Get(cs.args, k)]
    IN IF GenerateImageCheck(raw) # ""
       THEN FullThrows(cs, "constraint", PlainError(<<GenerateImageCheck(raw)>>))
       ELSE Awaits(cs, "images.generate", cs.params)

FullGenerateImage(cs) ==
    IF GenerateImageCheck(cs.params) # ""
    THEN FullThrows(cs, "constraint", PlainError(<<GenerateImageCheck(cs.params)>>))
    ELSE Awaits(cs, "images.generate", cs.params)

EditKeys == {"prompt", "model", "n", "size", "response_format", "user"}
VariationKeys == {"model", "n", "response_format", "size", "user"}

\* images.edit or images.createVariation, once every buffer is there
FullSendImage(cs) ==
    IF cs.name = "edit_image"
    THEN Awaits(cs, "images.edit", Pick(cs.params, EditKeys))
    ELSE Awaits(cs, "images.createVariation", Pick(cs.params, VariationKeys))

\* imageToBuffer(params.mask) has settled
FullAfterMask(cs, outcome) ==
    IF outcome.kind = "error"
    THEN FullThrows(cs, "decode", ErrorOf(outcome))
    ELSE FullSendImage([cs EXCEPT !.maskBuffer = outcome])

\* params.mask ? await imageToBuffer(params.mask) : undefined
FullStartMask(cs) ==
    IF cs.name = "edit_image" /\ Truthy(Get(cs.params, "mask"))
    THEN IF "url" \in LocalBranches(Get(cs.params, "mask").cs)
         THEN [cs EXCEPT !.pc = "fetch_mask", !.fetches = @ + 1]
         ELSE FullAfterMask(cs, LocalSync(Get(cs.params, "mask").cs))
    ELSE FullSendImage(cs)

\* imageToBuffer(params.image) has settled
FullAfterImage(cs, outcome) ==
    IF outcome.kind = "error"
    THEN FullThrows(cs, "decode", ErrorOf(outcome))
    ELSE FullStartMask([cs EXCEPT !.imageBuffer = outcome])

FullStartImage(cs) ==
    IF "url" \in LocalBranches(Get(cs.params, "image").cs)
    THEN [cs EXCEPT !.pc = "fetch_image", !.fetches = @ + 1]
    ELSE FullAfterImage(cs, LocalSync(Get(cs.params, "image").cs))

\* a case of the switch, after its parse
FullCase(cs) ==
    CASE cs.name = "chat_completion" -> Awaits(cs, "chat.completions.create", cs.params)
      [] cs.name = "create_embedding" -> Awaits(cs, "embeddings.create", cs.params)
      [] cs.name = "generate_image" -> FullGenerateImage(cs)
      [] cs.name \in {"edit_image", "create_image_variation"} -> FullStartImage(cs)

\* a switch without its default case: an unknown name falls into the last case
FullHandleNoDefault(cs) ==
    IF cs.name \notin FullTools \/ cs.name = "list_models"
    THEN Awaits(cs, "models.list", EmptyObject)
    ELSE LET parsed == Parse(SchemaOf("full", cs.name), cs.args)
             ran == [cs EXCEPT !.schemaRuns = @ + 1]
         IN IF parsed.issues # <<>>
            THEN FullThrows(ran, "schema", ZodError(parsed.issues))
            ELSE FullCase([ran EXCEPT !.params = parsed.data])

\* the handler from its entry to its first await, or to its end
FullHandle(cs) ==
    IF cs.name \notin FullTools
    THEN FullThrows(cs, "lookup", PlainError(<<"Unknown tool: ", cs.name>>))
    ELSE IF cs.name = "list_models"
    THEN Awaits(cs, "models.list", EmptyObject)
    ELSE LET parsed == Parse(SchemaOf("full", cs.name), cs.args)
             ran == [cs EXCEPT !.schemaRuns = @ + 1]
         IN IF parsed.issues # <<>>
            THEN FullThrows(ran, "schema", ZodError(parsed.issues))
            ELSE FullCase([ran EXCEPT !.params = parsed.data])

\* a handler that asks the upstream API once more after a failure
FullSettledRetriesOnce(cs, reply) ==
    IF reply.ok
    THEN [cs EXCEPT !.pc = "done", !.result = Success(ResponseKeys, reply.response)]
    ELSE IF cs.upstreamCalls < 2
    THEN [cs EXCEPT !.upstreamCalls = @ + 1]
    ELSE FullThrows(cs, "upstream", reply.error)

\* the upstream client has settled: the response is serialized whole
FullSettled(cs, reply) ==
    IF reply.ok
    THEN [cs EXCEPT !.pc = "done", !.result = Success(ResponseKeys, reply.response)]
    ELSE FullThrows(cs, "upstream", reply.error)

-----------------------------------------------------------------------------
(* The handler of the reduced registry *)

\* the catch inside each case: whatever was thrown after the parse
InnerCatch(e) == McpError("InternalError", <<"OpenAI API error: ">> \o e.msg)

\* the catch around the switch
ReducedCatch(e) ==
    IF e.errClass = "ZodError"
    THEN McpError("InvalidParams", <<"Invalid parameters: ">> \o JoinIssues(e.issues))
    ELSE e

ReducedThrows(cs, stage, e) == Ends(cs, stage, ReducedCatch(e))

ChatKeys ==
    {"model", "messages", "temperature", "max_tokens", "top_p", "frequency_penalty",
     "presence_penalty"}
EmbeddingKeys == {"model", "input", "encoding_format", "dimensions"}
ModerationKeys == {"model", "input"}

ReducedCase(cs) ==
    CASE cs.name = "chat_completion" ->
           Awaits(cs, "chat.completions.create", Pick(cs.params, ChatKeys))
      [] cs.name = "generate_embeddings" ->
           Awaits(cs, "embeddings.create", Pick(cs.params, EmbeddingKeys))
      [] cs.name = "moderate_content" ->
           Awaits(cs, "moderations.create", Pick(cs.params, ModerationKeys))

ReducedHandle(cs) ==
    IF cs.name \notin ReducedTools
    THEN ReducedThrows(cs, "lookup", McpError("MethodNotFound", <<"Unknown tool: ", cs.name>>))
    ELSE IF cs.name = "list_models"
    THEN Awaits(cs, "models.list", EmptyObject)
    ELSE LET parsed == Parse(SchemaOf("reduced", cs.name), cs.args)
             ran == [cs EXCEPT !.schemaRuns = @ + 1]
         IN IF parsed.issues # <<>>
            THEN ReducedThrows(ran, "schema", ZodError(parsed.issues))
            ELSE ReducedCase([ran EXCEPT !.params = parsed.data])

\* the keys of the object each case serializes
ProjectionKeys(name) ==
    CASE name = "chat_completion" -> {"message", "usage", "model", "finish_reason"}
      [] name = "generate_embeddings" -> {"embeddings", "model", "usage"}
      [] name = "list_models" -> {"models", "total"}
      [] name = "moderate_content" -> {"results", "model"}

\* the upstream client has settled; completion.choices[0].message throws a
\* TypeError inside the try when there is no choice
ReducedSettled(cs, reply) ==
    IF ~reply.ok
    THEN ReducedThrows(cs, "upstream", InnerCatch(reply.error))
    ELSE IF cs.name = "chat_completion" /\ reply.response.choices = <<>>
    THEN ReducedThrows(cs, "projection",
                       InnerCatch([NoError EXCEPT
                                     !.errClass = "TypeError",
                                     !.msg = <<"Cannot read properties of undefined (reading 'message')">>]))
    ELSE [cs EXCEPT !.pc = "done",
                    !.result = Success(ProjectionKeys(cs.name), reply.response)]

-----------------------------------------------------------------------------
(* The tool calls the model offers *)

\* longest payload text of the image arguments given to the handler
MaxDispatchPayloadLen == 1

TextArg(x) == StrL(x, 5)
Message(role, content) == [role |-> role, content |-> content, name |-> Undef]

ChatArgs ==
    {Obj([NoArgs EXCEPT !["messages"] = m, !["temperature"] = tmp, !["top_p"] = tp,
                    !["max_tokens"] = mt]) :
        m \in {Undef, TextArg("hi"), Arr(<<>>),
               Arr(<<Message(Atom("user"), TextArg("hi"))>>),
               Arr(<<Message(Atom("tool"), TextArg("hi"))>>),
               Arr(<<Message(Atom("invalid"), TextArg("hi"))>>),
               Arr(<<Message(Atom("user"), TextArg("hi")), Message(Atom("system"), Undef)>>)},
        tmp \in {Undef, Num(-1), Num(0), NumF(0, 7), Num(2), NumF(2, 1), Num(5), TextArg("hot")},
        tp \in {Undef, Num(1), Num(2)},
        mt \in {Undef, Num(0), Num(100)}}

InputValues == {Undef, Num(5), TextArg("text"), Arr(<<TextArg("a"), TextArg("b")>>)}

EmbeddingArgs ==
    {Obj([NoArgs EXCEPT !["input"] = i, !["encoding_format"] = e, !["dimensions"] = d]) :
        i \in InputValues,
        e \in {Undef, Atom("float"), Atom("hex")},
        d \in {Undef, Num(0), Num(256)}}

ModerationArgs ==
    {Obj([NoArgs EXCEPT !["input"] = i, !["model"] = m]) :
        i \in InputValues, m \in {Undef, Atom("omni-moderation-latest")}}

PromptValues ==
    {Undef, StrL("a cat", 5), StrL("a long prompt", PromptMaxLen),
     StrL("a longer prompt", PromptMaxLen + 1)}

GenerateImageArgs ==
    {Obj([NoArgs EXCEPT !["prompt"] = p, !["model"] = m, !["n"] = n, !["quality"] = q,
                    !["size"] = s, !["style"] = st]) :
        p \in PromptValues,
        m \in {Undef} \cup ModelValues,
        n \in {Undef, Num(0), Num(1), NumF(1, 5), Num(2), Num(ImageCountMax),
               Num(ImageCountMax + 1)},
        q \in QualityValues,
        s \in {Undef, Atom("64x64"), Atom("512x512"), Atom("1024x1024"), Atom("1792x1024")},
        st \in StyleValues}

DispatchImages ==
    {Chars(s) : s \in UNION {Wrappings(p) : p \in TextsUpTo(MaxDispatchPayloadLen)}
                      \cup {DataInvalid, JpegAAAA, PngQUJD}}

MaskValues ==
    {Undef, Chars(<<>>), Chars(JpegAAAA), Chars(PngQUJD), Chars(DataInvalid),
     Chars(DataImage), Chars(Https \o <<"m">>)}

EditImageArgs ==
    {Obj([NoArgs EXCEPT !["image"] = i, !["mask"] = m, !["prompt"] = p, !["n"] = n]) :
        i \in DispatchImages \cup {Undef},
        m \in MaskValues,
        p \in {Undef, StrL("x", 1)},
        n \in {Undef, Num(0), Num(2)}}

VariationArgs ==
    {Obj([NoArgs EXCEPT !["image"] = i, !["n"] = n]) :
        i \in DispatchImages \cup {Undef, Num(7)},
        n \in {Undef, Num(3), Num(ImageCountMax + 1)}}

BareArgs == {EmptyObject, Obj([NoArgs EXCEPT !["extra"] = TextArg("more")])}

\* arguments that pass each schema, with one numeric field then set to whole
\* and fractional values on both sides of every bound
BaseArgs(name) ==
    IF name = "chat_completion"
    THEN Obj([NoArgs EXCEPT !["messages"] = Arr(<<Message(Atom("user"), TextArg("hi"))>>)])
    ELSE IF name = "generate_image"
    THEN Obj([NoArgs EXCEPT !["prompt"] = StrL("a cat", 5)])
    ELSE IF name = "edit_image"
    THEN Obj([NoArgs EXCEPT !["image"] = Chars(PngQUJD), !["prompt"] = StrL("x", 1)])
    ELSE Obj([NoArgs EXCEPT !["image"] = Chars(PngQUJD)])

NumericFields ==
    {"temperature", "top_p", "frequency_penalty", "presence_penalty", "max_tokens", "n"}

EdgeValues ==
    {Num(k) : k \in -3..3}
    \cup {Num(k) : k \in (ImageCountMax - 1)..(ImageCountMax + 1)}
    \cup {NumF(-3, 9), NumF(-1, 9), NumF(0, 1), NumF(0, 9), NumF(1, 1), NumF(2, 1),
          NumF(ImageCountMax, 1)}

With(args, key, v) == [k \in DOMAIN args \cup {key} |-> IF k = key THEN v ELSE args[k]]

EdgeCalls ==
    {<<name, With(BaseArgs(name), f, v)>> :
        name \in {"chat_completion", "generate_image", "edit_image", "create_image_variation"},
        f \in NumericFields, v \in EdgeValues}

\* calls the schemas accept that also carry a key their schema does not
\* declare: one no schema knows, and one that only another schema declares
UndeclaredCalls ==
    {<<name, With(BaseArgs(name), k, v)>> :
        name \in {"chat_completion", "generate_image", "edit_image", "create_image_variation"},
        k \in {"extra"}, v \in {TextArg("more")}}
    \cup {<<name, With(Obj([NoArgs EXCEPT !["input"] = TextArg("text")]), k, TextArg("more"))>> :
            name \in {"create_embedding", "generate_embeddings", "moderate_content"},
            k \in {"extra", "user"}}
    \cup {<<"chat_completion", With(BaseArgs("chat_completion"), "stream", Bool(TRUE))>>,
          <<"chat_completion", With(BaseArgs("chat_completion"), "user", TextArg("me"))>>,
          <<"edit_image", With(BaseArgs("edit_image"), "quality", Atom("hd"))>>,
          <<"create_image_variation",
            With(BaseArgs("create_image_variation"), "prompt", StrL("x", 1))>>}

ToolCalls ==
    EdgeCalls
    \cup UndeclaredCalls
    \cup {<<"chat_completion", a>> : a \in ChatArgs}
    \cup {<<"create_embedding", a>> : a \in EmbeddingArgs}
    \cup {<<"generate_embeddings", a>> : a \in EmbeddingArgs}
    \cup {<<"moderate_content", a>> : a \in ModerationArgs}
    \cup {<<"generate_image", a>> : a \in GenerateImageArgs}
    \cup {<<"edit_image", a>> : a \in EditImageArgs}
    \cup {<<"create_image_variation", a>> : a \in VariationArgs}
    \cup {<<"list_models", a>> : a \in BareArgs}
    \cup {<<"unknown_tool", a>> : a \in BareArgs}

-----------------------------------------------------------------------------
(* The server *)

\* a handler that keeps the arguments of the request in a variable of the
\* module, where a call still in flight has left its own
HandleSharedArguments(reg, cs) ==
    LET inFlight == {d \in DOMAIN call : call[d].pc \notin {"idle", "done"}}
        shared == IF inFlight = {} THEN cs.args
                  ELSE call[CHOOSE d \in inFlight : TRUE].args
        ran == IF reg = "full" THEN FullHandle([cs EXCEPT !.args = shared])
               ELSE ReducedHandle([cs EXCEPT !.args = shared])
    IN [ran EXCEPT !.args = cs.args]

Handle(reg, cs) == IF reg = "full" THEN FullHandle(cs) ELSE ReducedHandle(cs)
\* a continuation that never runs: the call stays where it waits
SettledNeverResumes(reg, cs, reply) == cs

Settled(reg, cs, reply) ==
    IF reg = "full" THEN FullSettled(cs, reply) ELSE ReducedSettled(cs, reply)

(* The process *)

\* most answered calls the count of answered calls tells apart
MaxServed == 2

\* the process before its first statement; key: OPENAI_API_KEY is set
Started(key) == [pc |-> "start", key |-> key, served |-> 0, code |-> 0]

\* the process once the transport is connected
Serving == [pc |-> "serving", key |-> TRUE, served |-> 0, code |-> 0]

\* process.exit(1)
Exit(p) == [p EXCEPT !.pc = "exited", !.code = 1]

\* a handler that ended the process on a failed call
AfterCallExitsOnError(p, result) ==
    IF result.kind = "error" THEN Exit(p)
    ELSE [p EXCEPT !.served = IF @ < MaxServed THEN @ + 1 ELSE @]

\* the handler returns or rethrows and the process goes on; the calls
\* answered so far are counted up to MaxServed
AfterCall(p, result) == [p EXCEPT !.served = IF @ < MaxServed THEN @ + 1 ELSE @]

\* a tools/call request arrives and its handler runs to its first await
CallTool(c) ==
    /\ process.pc = "serving"
    /\ call[c].pc = "idle"
    /\ \E tc \in ToolCalls :
         call' = [call EXCEPT ![c] = Handle(registry, [CallIdle EXCEPT !.name = tc[1],
                                                                      !.args = tc[2]])]
    /\ UNCHANGED <<registry, img, dalle, util, process>>

\* the fetch of the image argument settles
ImageFetchSettles(c) ==
    /\ call[c].pc = "fetch_image"
    /\ \E resp \in FetchResponses :
         call' = [call EXCEPT ![c] = [FullAfterImage(call[c], LocalFetched(resp))
                                        EXCEPT !.fetched = resp]]
    /\ UNCHANGED <<registry, img, dalle, util, process>>

\* the fetch of the mask argument settles
MaskFetchSettles(c) ==
    /\ call[c].pc = "fetch_mask"
    /\ \E resp \in FetchResponses :
         call' = [call EXCEPT ![c] = [FullAfterMask(call[c], LocalFetched(resp))
                                        EXCEPT !.fetched = resp]]
    /\ UNCHANGED <<registry, img, dalle, util, process>>

\* the upstream API answers or fails
UpstreamSettles(c) ==
    /\ call[c].pc = "upstream"
    /\ \E reply \in UpstreamReplies :
         call' = [call EXCEPT ![c] = [Settled(registry, call[c], reply) EXCEPT !.reply = reply]]
    /\ UNCHANGED <<registry, img, dalle, util, process>>

\* the result goes back to the caller and the call is over
Respond(c) ==
    /\ call[c].pc = "done"
    /\ call' = [call EXCEPT ![c] = CallIdle]
    /\ process' = AfterCall(process, call[c].result)
    /\ UNCHANGED <<registry, img, dalle, util>>

Init ==
    /\ registry \in {"full", "reduced"}
    /\ call = [c \in {"c1"} |-> CallIdle]
    /\ img = ImgIdle
    /\ dalle = DalleIdle
    /\ util = UtilIdle
    /\ process = Serving

Next ==
    \/ \E c \in DOMAIN call : CallTool(c)
    \/ \E c \in DOMAIN call : ImageFetchSettles(c)
    \/ \E c \in DOMAIN call : MaskFetchSettles(c)
    \/ \E c \in DOMAIN call : UpstreamSettles(c)
    \/ \E c \in DOMAIN call : Respond(c)

Spec == Init /\ [][Next]_vars

(* The server when whatever a call waits for settles in the end *)

\* every fetch and every upstream request that is under way responds or fails
Settling ==
    /\ WF_vars(ImageFetchSettles("c1"))
    /\ WF_vars(MaskFetchSettles("c1"))
    /\ WF_vars(UpstreamSettles("c1"))

FairSpec == Init /\ [][Next]_vars /\ Settling

(* Two calls in flight at once *)

\* a handful of calls, one or two for each way a call can go
ConcCalls ==
    {<<"chat_completion", BaseArgs("chat_completion")>>,
     <<"chat_completion", With(BaseArgs("chat_completion"), "temperature", Num(5))>>,
     <<"generate_image", BaseArgs("generate_image")>>,
     <<"generate_image", With(BaseArgs("generate_image"), "n", Num(2))>>,
     <<"edit_image", BaseArgs("edit_image")>>,
     <<"edit_image", With(With(BaseArgs("edit_image"), "image", Chars(Https \o <<"A">>)),
                          "mask", Chars(Https \o <<"m">>))>>,
     <<"create_image_variation", With(BaseArgs("edit_image"), "image", Chars(Http \o <<"Q">>))>>,
     <<"generate_embeddings", Obj([NoArgs EXCEPT !["input"] = TextArg("text")])>>,
     <<"moderate_content", Obj([NoArgs EXCEPT !["input"] = TextArg("text")])>>,
     <<"list_models", EmptyObject>>,
     <<"unknown_tool", EmptyObject>>}

\* the transport hands a request to the handler while another may be waiting
ConcCallTool(c) ==
    /\ process.pc = "serving"
    /\ call[c].pc = "idle"
    /\ \E tc \in ConcCalls :
         call' = [call EXCEPT ![c] = Handle(registry, [CallIdle EXCEPT !.name = tc[1],
                                                                      !.args = tc[2]])]
    /\ UNCHANGED <<registry, img, dalle, util, process>>

ConcInit ==
    /\ registry \in {"full", "reduced"}
    /\ call = [c \in {"c1", "c2"} |-> CallIdle]
    /\ img = ImgIdle
    /\ dalle = DalleIdle
    /\ util = UtilIdle
    /\ process = Serving

ConcNext ==
    \/ \E c \in DOMAIN call : ConcCallTool(c)
    \/ \E c \in DOMAIN call : ImageFetchSettles(c)
    \/ \E c \in DOMAIN call : MaskFetchSettles(c)
    \/ \E c \in DOMAIN call : UpstreamSettles(c)
    \/ \E c \in DOMAIN call : Respond(c)

ConcSpec == ConcInit /\ [][ConcNext]_vars

(* The process from its start *)

\* the module's top level: without the credential the process ends here
CheckApiKey ==
    /\ process.pc = "start"
    /\ process' = IF process.key THEN [process EXCEPT !.pc = "connecting"] ELSE Exit(process)
    /\ UNCHANGED <<registry, call, img, dalle, util>>

\* main: the transport connects, or connecting fails and the process ends
main ==
    /\ process.pc = "connecting"
    /\ \E connected \in BOOLEAN :
         process' = IF connected THEN [process EXCEPT !.pc = "serving"] ELSE Exit(process)
    /\ UNCHANGED <<registry, call, img, dalle, util>>

ProcInit ==
    /\ registry \in {"full", "reduced"}
    /\ call = [c \in {"c1"} |-> CallIdle]
    /\ img = ImgIdle
    /\ dalle = DalleIdle
    /\ util = UtilIdle
    /\ process \in {Started(key) : key \in BOOLEAN}

ProcNext ==
    \/ CheckApiKey
    \/ main
    \/ \E c \in DOMAIN call : ConcCallTool(c)
    \/ \E c \in DOMAIN call : ImageFetchSettles(c)
    \/ \E c \in DOMAIN call : MaskFetchSettles(c)
    \/ \E c \in DOMAIN call : UpstreamSettles(c)
    \/ \E c \in DOMAIN call : Respond(c)

ProcSpec == ProcInit /\ [][ProcNext]_vars

(* The utilities on their own *)

UtilInit ==
    /\ registry = "none"
    /\ call = [c \in {"c1"} |-> CallIdle]
    /\ img = ImgIdle
    /\ dalle = DalleIdle
    /\ util = UtilIdle
    /\ process = Serving

UtilNext ==
    \/ ImgStart
    \/ ImgFetched
    \/ ImgReturn
    \/ DalleValidate
    \/ DalleReturn
    \/ BufferToDataURL
    \/ ValidatePNGFormat
    \/ IsValidImageSize
    \/ ExponentialBackoff
    \/ SanitizePrompt
    \/ UtilReturn

UtilSpec == UtilInit /\ [][UtilNext]_vars

-----------------------------------------------------------------------------
(* What the claims speak of *)

Contains(msg, tok) == \E i \in 1..Len(msg) : msg[i] = tok

IsSuffix(tail, msg) ==
    /\ Len(tail) <= Len(msg)
    /\ SubSeq(msg, Len(msg) - Len(tail) + 1, Len(msg)) = tail

ConstraintMessages == {ErrD3N, ErrD3Size, ErrD2Quality, ErrD2Style, ErrD2Size}

DecodeMessages ==
    {"Failed to fetch image from URL: ", "Invalid data URL format",
     "Unsupported image format: ", "Invalid base64 image data",
     "Error fetching image from URL: "}

\* the kind of the taxonomy a result falls under, read off what the caller gets:
\* the error code where there is one, else the head of the message
KindOf(r) ==
    IF r.kind = "success" THEN "Success"
    ELSE IF r.kind = "none" THEN "None"
    ELSE LET e == r.error
             head == IF e.msg = <<>> THEN "" ELSE e.msg[1]
         IN IF e.code = "MethodNotFound" \/ (e.code = "" /\ head = "Unknown tool: ")
            THEN "UnknownTool"
            ELSE IF e.code = "InvalidParams"
                    \/ (e.code = "" /\ head \in {"Invalid input parameters: "}
                                                 \cup ConstraintMessages \cup DecodeMessages)
            THEN "InvalidParams"
            ELSE IF head \in {"OpenAI API error (", "OpenAI API error: "}
            THEN "UpstreamError"
            ELSE "InternalError"

\* the fields of the arguments that break their contract, each checked alone
ViolatingFields(reg, name, args) ==
    LET schema == SchemaOf(reg, name)
    IN {schema[i].name : i \in {j \in 1..Len(schema) :
                                  CheckField(schema[j], Get(args, schema[j].name)).issues # <<>>}}

\* the arguments validateDALLEParams reads
RuleParams(params) ==
    [model |-> Get(params, "model"), size |-> Get(params, "size"),
     quality |-> Get(params, "quality"), style |-> Get(params, "style"),
     n |-> Get(params, "n")]

Range(seq) == {seq[i] : i \in 1..Len(seq)}

\* s is a data URL of a subtype other than png
NonPngDataURL(s) == DataURLMatch(s).matched /\ DataURLMatch(s).format # Png

DataScheme == <<"d","a","t","a",":">>

\* the alphabet of ImageFormatSchema's last alternative, padding included
StrictB64(c) == c \in Utf8Lower \cup Utf8Upper \cup Digits \cup {"+", "/", "="}

-----------------------------------------------------------------------------
(* C1 *)

\* C1: a call that ended in a validation failure (a schema violation, a model
\* rule, an image that could not be decoded) made no upstream API call
C1_ValidationFailureMakesNoUpstreamCall ==
    \A c \in DOMAIN call :
        (call[c].pc = "done" /\ call[c].failedAt \in {"schema", "constraint", "decode"})
        => /\ call[c].result.kind = "error"
           /\ call[c].upstreamCalls = 0
           /\ call[c].request = NoRequest

\* the mask fails to decode after the image was decoded
C1_Witness ==
    \E c \in DOMAIN call :
        /\ call[c].pc = "done"
        /\ call[c].failedAt = "decode"
        /\ call[c].imageBuffer.kind = "payload"
        /\ call[c].upstreamCalls = 0

(* C2 *)

\* C2: a name outside the registry ends the call at the lookup as UnknownTool,
\* whatever the arguments, with no parse and no upstream call
C2_UnknownToolFailsAtLookup ==
    \A c \in DOMAIN call :
        (call[c].pc # "idle" /\ call[c].name \notin ToolsOf(registry))
        => /\ call[c].pc = "done"
           /\ call[c].failedAt = "lookup"
           /\ KindOf(call[c].result) = "UnknownTool"
           /\ call[c].result.error.msg = <<"Unknown tool: ", call[c].name>>
           /\ call[c].schemaRuns = 0
           /\ call[c].upstreamCalls = 0
           /\ call[c].fetches = 0

\* a tool of the other registry, given arguments that would not pass its schema
C2_Witness ==
    \E c \in DOMAIN call :
        /\ registry = "full"
        /\ call[c].pc = "done"
        /\ call[c].name = "moderate_content"
        /\ "input" \notin DOMAIN call[c].args
        /\ KindOf(call[c].result) = "UnknownTool"

(* C3 *)

\* C3: when the upstream call failed, the result is an UpstreamError whose
\* message holds the upstream status and ends with the upstream message
C3_UpstreamErrorCarriesStatusAndMessage ==
    \A c \in DOMAIN call :
        (call[c].pc = "done" /\ call[c].reply.error.errClass = "APIError")
        => /\ KindOf(call[c].result) = "UpstreamError"
           /\ Contains(call[c].result.error.msg, call[c].reply.error.status)
           /\ IsSuffix(call[c].reply.error.msg, call[c].result.error.msg)

(* C4 *)

\* C4: arguments that break the schema in some fields end the call in one
\* InvalidParams failure whose message names each of those fields
C4_EveryViolatingFieldNamed ==
    \A c \in DOMAIN call :
        (/\ call[c].pc # "idle"
         /\ call[c].name \in ToolsOf(registry)
         /\ ViolatingFields(registry, call[c].name, call[c].args) # {})
        => /\ call[c].pc = "done"
           /\ call[c].failedAt = "schema"
           /\ KindOf(call[c].result) = "InvalidParams"
           /\ \A f \in ViolatingFields(registry, call[c].name, call[c].args) :
                Contains(call[c].result.error.msg, f)

\* three fields of one chat call are wrong at once
C4_Witness ==
    \E c \in DOMAIN call :
        /\ call[c].pc = "done"
        /\ call[c].failedAt = "schema"
        /\ ViolatingFields(registry, call[c].name, call[c].args)
             = {"temperature", "top_p", "max_tokens"}

(* C5 *)

\* C5: a generate_image call that breaks model rules is told every rule it
\* breaks
C5_EveryViolatedRuleReported ==
    \A c \in DOMAIN call :
        (/\ registry = "full"
         /\ call[c].pc = "done"
         /\ call[c].name = "generate_image"
         /\ call[c].failedAt = "constraint")
        => \A e \in Range(validateDALLEParams(RuleParams(call[c].params)).errors) :
             Contains(call[c].result.error.msg, e)

(* C6 *)

\* a generate_image call of the full registry that names dall-e-3 and asks for
\* more than one image, its other fields within the schema
FlagshipWithMany(c) ==
    /\ registry = "full"
    /\ call[c].pc # "idle"
    /\ call[c].name = "generate_image"
    /\ Get(call[c].args, "model") = Atom("dall-e-3")
    /\ Gt(Get(call[c].args, "n"), 1)
    /\ ViolatingFields(registry, call[c].name, call[c].args) \subseteq {"n"}

\* the utility, given the arguments of the call, reports the n=1 rule
UtilityReportsD3N(args) ==
    /\ ~validateDALLEParams(RuleParams(args)).valid
    /\ ErrD3N \in Range(validateDALLEParams(RuleParams(args)).errors)

\* C6 as stated: generate_image with dall-e-3 and n greater than 1 fails as
\* InvalidParams with the "... n=1" message, and validateDALLEParams on the
\* same arguments is invalid with that message.  n above the schema's maximum
\* is answered by the schema instead.
C6_FlagshipCountAboveOneMentionsN1 ==
    \A c \in DOMAIN call :
        FlagshipWithMany(c)
        => /\ call[c].pc = "done"
           /\ KindOf(call[c].result) = "InvalidParams"
           /\ Contains(call[c].result.error.msg, ErrD3N)
           /\ UtilityReportsD3N(call[c].args)

\* C6, amended: generate_image naming dall-e-3 with 1 < n <= 10 and arguments
\* that pass the schema fails at the model rules, before any upstream call, as
\* InvalidParams with exactly the "... n=1" message, whatever else the
\* arguments break; validateDALLEParams on the same arguments is invalid and
\* lists that message
C6_FlagshipCountWithinSchemaMentionsN1 ==
    \A c \in DOMAIN call :
        (FlagshipWithMany(c)
         /\ ViolatingFields(registry, call[c].name, call[c].args) = {})
        => /\ call[c].pc = "done"
           /\ call[c].failedAt = "constraint"
           /\ KindOf(call[c].result) = "InvalidParams"
           /\ call[c].result.error.msg = <<ErrD3N>>
           /\ call[c].upstreamCalls = 0
           /\ UtilityReportsD3N(call[c].args)

\* two images of a size dall-e-3 does not have: the count is what is reported
C6_Witness ==
    \E c \in DOMAIN call :
        /\ FlagshipWithMany(c)
        /\ call[c].pc = "done"
        /\ Get(call[c].args, "n") = Num(2)
        /\ Get(call[c].args, "size") = Atom("512x512")
        /\ call[c].result.error.msg = <<ErrD3N>>

(* C7 *)

\* an edit_image or create_image_variation call of the full registry whose
\* arguments pass the schema and whose image or mask is a data URL of a
\* subtype other than png
NonPngImageCall(c) ==
    /\ registry = "full"
    /\ call[c].pc # "idle"
    /\ call[c].name \in {"edit_image", "create_image_variation"}
    /\ ViolatingFields(registry, call[c].name, call[c].args) = {}
    /\ \E k \in {"image", "mask"} :
         /\ k \in DOMAIN call[c].args
         /\ NonPngDataURL(call[c].args[k].cs)

\* C7: such a call fails as InvalidParams naming the subtype, with no upstream
\* call, as the utility decoder fails on the same string
C7_NonPngDataURLRejectedBeforeUpstream ==
    \A c \in DOMAIN call :
        NonPngImageCall(c)
        => /\ call[c].upstreamCalls = 0
           /\ call[c].pc = "done"
           /\ KindOf(call[c].result) = "InvalidParams"
           /\ \E k \in {"image", "mask"} :
                /\ k \in DOMAIN call[c].args
                /\ NonPngDataURL(call[c].args[k].cs)
                /\ UtilDataURL(call[c].args[k].cs).kind = "error"
                /\ UtilDataURL(call[c].args[k].cs).msg[1] = "Unsupported image format: "
                /\ \A i \in 1..Len(DataURLMatch(call[c].args[k].cs).format) :
                     Contains(call[c].result.error.msg,
                              DataURLMatch(call[c].args[k].cs).format[i])

(* C8 *)

\* C8: the utility decoder, given a string of the data: scheme that is not of
\* the form data:image/<subtype>;base64,<payload>, throws "Invalid data URL
\* format" and returns no payload
C8_MalformedDataURLRejected ==
    (/\ img.pc = "done"
     /\ img.impl = "utility"
     /\ startsWith(img.s, DataScheme)
     /\ ~DataURLMatch(img.s).matched)
    => /\ img.out.kind = "error"
       /\ img.out.msg = <<"Invalid data URL format">>

(* C9 *)

\* C9: the utility decoder, given a string that is neither a URL nor a data
\* URL and holds a character outside the base64 alphabet, throws "Invalid
\* base64 image data" and returns no payload
C9_NonBase64RawRejected ==
    (/\ img.pc = "done"
     /\ img.impl = "utility"
     /\ ~IsUrl(img.s)
     /\ ~startsWith(img.s, DataScheme)
     /\ \E i \in 1..Len(img.s) : ~StrictB64(img.s[i]))
    => /\ img.out.kind = "error"
       /\ img.out.msg = <<"Invalid base64 image data">>

(* C10 *)

\* the class of a string, in the order the decoders try them
ClassOf(s) ==
    IF IsUrl(s) THEN "url"
    ELSE IF startsWith(s, DataImage) THEN "data"
    ELSE "raw"

\* C10: either decoder runs exactly one branch on any string, the one of the
\* string's class (URL, else data URL, else raw base64); only the URL branch
\* fetches, once; and the run ends in a payload or in a thrown error
C10_DecodeTotalOverDisjointClasses ==
    img.pc # "idle"
    => /\ img.branches = {ClassOf(img.s)}
       /\ img.fetches = (IF ClassOf(img.s) = "url" THEN 1 ELSE 0)
       /\ img.pc = "done" => img.out.kind \in {"payload", "error"}
       /\ img.pc = "fetching" => ClassOf(img.s) = "url" /\ img.out.kind = "none"

\* a URL that itself holds a data URL is fetched, not parsed
C10_Witness ==
    /\ img.pc = "done"
    /\ img.impl = "utility"
    /\ IsUrl(img.s)
    /\ Contains(img.s, ",")
    /\ img.branches = {"url"}
    /\ img.out.kind = "payload"

(* C11 *)

\* a decoder has finished on the PNG data URL bufferToDataURL made of a buffer
DecodedWhatWasEncoded ==
    /\ util.pc = "done"
    /\ util.fn = "bufferToDataURL"
    /\ util.arg[2] = ImagePng
    /\ img.pc = "done"
    /\ img.s = util.res

\* C11 as stated: for every byte sequence, decoding bufferToDataURL(bytes)
\* succeeds and returns exactly bytes.  The utility decoder rejects the data
\* URL of the empty sequence, whose payload is empty.
C11_RoundTripOfEveryBuffer ==
    DecodedWhatWasEncoded
    => /\ util.res = DataImageSlash \o Png \o Base64Marker \o Base64Encode(util.arg[1])
       /\ img.out = Payload(util.arg[1])

\* C11, amended: for every byte sequence that is not empty, either decoder,
\* given bufferToDataURL(bytes) = data:image/png;base64,<base64(bytes)>, takes
\* the data URL branch and returns exactly bytes
C11_RoundTripOfNonEmptyBuffer ==
    (DecodedWhatWasEncoded /\ util.arg[1] # <<>>)
    => /\ util.res = DataImageSlash \o Png \o Base64Marker \o Base64Encode(util.arg[1])
       /\ img.branches = {"data"}
       /\ img.out = Payload(util.arg[1])

\* a buffer whose encoding ends in padding came back from the utility decoder
C11_Witness ==
    /\ DecodedWhatWasEncoded
    /\ img.impl = "utility"
    /\ Len(util.arg[1]) = 10
    /\ util.res[Len(util.res)] = "="
    /\ img.out = Payload(util.arg[1])

(* C12 *)

\* C12: a call whose image or mask URL was answered with a status other than
\* 2xx, or whose fetch failed, ends in a failure with no payload decoded from
\* it and no upstream call; the message holds the status code and the reason
\* phrase, or the message of the fetch failure
C12_FetchFailureCarriesStatusAndReason ==
    \A c \in DOMAIN call :
        (call[c].pc # "idle" /\ call[c].fetched # NoResponse /\ ~call[c].fetched.ok)
        => /\ call[c].pc = "done"
           /\ call[c].result.kind = "error"
           /\ call[c].upstreamCalls = 0
           /\ call[c].request = NoRequest
           /\ call[c].fetched.rejected
                => Contains(call[c].result.error.msg, call[c].fetched.message)
           /\ ~call[c].fetched.rejected
                => /\ Contains(call[c].result.error.msg, call[c].fetched.status)
                   /\ Contains(call[c].result.error.msg, call[c].fetched.statusText)

(* C13 *)

\* the fields of a tool's schema that have both a minimum and a maximum
BoundedFields(reg, name) ==
    LET schema == SchemaOf(reg, name)
    IN {<<schema[i].name, schema[i].lo, schema[i].hi>> :
          i \in {j \in 1..Len(schema) : schema[j].hasMin /\ schema[j].hasMax}}

\* the bounds as the specification declares them
DeclaredBounds(name) ==
    IF name = "chat_completion"
    THEN {<<"temperature", 0, 2>>, <<"top_p", 0, 1>>, <<"frequency_penalty", -2, 2>>,
          <<"presence_penalty", -2, 2>>}
    ELSE IF name \in {"generate_image", "edit_image", "create_image_variation"}
    THEN {<<"n", 1, 10>>}
    ELSE {}

\* C13: the schemas bound exactly the declared numeric fields by the declared
\* [lo, hi]; a call that is otherwise valid passes the schema with the field
\* at lo or at hi, and with lo-1 or hi+1 fails at the schema as InvalidParams
\* with a message naming the field
C13_NumericBoundsAreInclusive ==
    \A c \in DOMAIN call :
        (call[c].pc # "idle" /\ call[c].name \in ToolsOf(registry))
        => /\ BoundedFields(registry, call[c].name) = DeclaredBounds(call[c].name)
           /\ \A b \in BoundedFields(registry, call[c].name) :
                (ViolatingFields(registry, call[c].name, call[c].args) \subseteq {b[1]})
                => /\ Get(call[c].args, b[1]) \in {Num(b[2]), Num(b[3])}
                        => /\ call[c].failedAt # "schema"
                           /\ call[c].schemaRuns = 1
                           /\ Get(call[c].params, b[1]) = Get(call[c].args, b[1])
                   /\ Get(call[c].args, b[1]) \in {Num(b[2] - 1), Num(b[3] + 1)}
                        => /\ call[c].pc = "done"
                           /\ call[c].failedAt = "schema"
                           /\ KindOf(call[c].result) = "InvalidParams"
                           /\ Contains(call[c].result.error.msg, b[1])
                           /\ call[c].upstreamCalls = 0

\* one below the lower bound of a penalty is refused by the reduced registry
C13_Witness ==
    \E c \in DOMAIN call :
        /\ registry = "reduced"
        /\ call[c].name = "chat_completion"
        /\ Get(call[c].args, "frequency_penalty") = Num(-3)
        /\ call[c].failedAt = "schema"
        /\ Contains(call[c].result.error.msg, "frequency_penalty")

(* C14 *)

\* the fields of a schema that a caller has to supply
RequiredFields(schema) ==
    {schema[i].name : i \in {j \in 1..Len(schema) :
                               ~schema[j].optional /\ schema[j].default = Undef}}

\* the call has a schema and its parse has not thrown
PassedSchema(c) ==
    /\ call[c].pc # "idle"
    /\ call[c].name \in ToolsOf(registry)
    /\ call[c].schemaRuns = 1
    /\ call[c].failedAt # "schema"

\* C14: for every tool with a schema, each declared default passes the checks
\* of its own field; a call that supplies just the required fields, with
\* values of their type, passes the parse; and after a parse that passed,
\* each absent field holds its default in the validated arguments, or stays
\* absent when it has none
C14_DefaultsFilledAndValid ==
    \A c \in DOMAIN call :
        (call[c].pc # "idle" /\ call[c].name \in ToolsOf(registry))
        => LET schema == SchemaOf(registry, call[c].name)
           IN /\ \A i \in 1..Len(schema) :
                   schema[i].default # Undef
                   => ValueIssues(schema[i], schema[i].default) = <<>>
              /\ (/\ schema # <<>>
                  /\ DOMAIN call[c].args = RequiredFields(schema)
                  /\ \A i \in 1..Len(schema) :
                       schema[i].name \in DOMAIN call[c].args
                       => ValueIssues(schema[i], call[c].args[schema[i].name]) = <<>>)
                 => PassedSchema(c)
              /\ PassedSchema(c)
                 => \A i \in 1..Len(schema) :
                      schema[i].name \notin DOMAIN call[c].args
                      => Get(call[c].params, schema[i].name) = schema[i].default

\* generate_image with a prompt alone reaches the upstream call with the five
\* defaults in place
C14_Witness ==
    \E c \in DOMAIN call :
        /\ call[c].name = "generate_image"
        /\ DOMAIN call[c].args = {"prompt"}
        /\ call[c].pc = "upstream"
        /\ Get(call[c].params, "model") = Atom("dall-e-3")
        /\ Get(call[c].params, "n") = Num(1)
        /\ Get(call[c].params, "quality") = Atom("standard")
        /\ Get(call[c].params, "response_format") = Atom("url")
        /\ Get(call[c].params, "size") = Atom("1024x1024")
        /\ Get(call[c].params, "style") = Atom("vivid")

(* C15 *)

\* C15: a generate_image call that names dall-e-2, with n in 1..10, quality
\* standard or left out, one of the three square sizes and no style, passes
\* the model rules and is sent upstream
C15_LegacyCallWithoutStyleReachesUpstream ==
    \A c \in DOMAIN call :
        (/\ registry = "full"
         /\ call[c].pc # "idle"
         /\ call[c].name = "generate_image"
         /\ ViolatingFields(registry, call[c].name, call[c].args) = {}
         /\ Get(call[c].args, "model") = Atom("dall-e-2")
         /\ Get(call[c].args, "quality") \in {Undef, Atom("standard")}
         /\ Get(call[c].args, "size") \in {Atom(s) : s \in D2Sizes}
         /\ "style" \notin DOMAIN call[c].args)
        => /\ call[c].failedAt # "constraint"
           /\ call[c].upstreamCalls = 1
           /\ call[c].request.endpoint = "images.generate"

(* C16 *)

\* what validateDALLEParams says of quality and style for the given arguments
ValidatorOnQualityAndStyle(p) ==
    LET errors == Range(validateDALLEParams(p).errors)
    IN /\ (p.model = Atom("dall-e-2") /\ p.quality = Atom("hd")) => ErrD2Quality \in errors
       /\ (p.model = Atom("dall-e-2") /\ p.style # Undef) => ErrD2Style \in errors
       /\ p.model = Atom("dall-e-3") => ErrD2Quality \notin errors /\ ErrD2Style \notin errors

\* C16: a generate_image call for dall-e-2 is told that hd quality is not
\* supported when it asks for hd, and that the style parameter is not
\* supported when it gives a style; a call for dall-e-3 is told neither; and
\* validateDALLEParams answers the same on the validated arguments
C16_LegacyQualityAndStyleErrors ==
    \A c \in DOMAIN call :
        (/\ registry = "full"
         /\ call[c].pc # "idle"
         /\ call[c].name = "generate_image"
         /\ ViolatingFields(registry, call[c].name, call[c].args) = {})
        => /\ ValidatorOnQualityAndStyle(RuleParams(call[c].args))
           /\ (Get(call[c].args, "model") = Atom("dall-e-2")
               /\ Get(call[c].args, "quality") = Atom("hd"))
              => /\ call[c].pc = "done"
                 /\ Contains(call[c].result.error.msg, ErrD2Quality)
           /\ (Get(call[c].args, "model") = Atom("dall-e-2")
               /\ "style" \in DOMAIN call[c].args)
              => /\ call[c].pc = "done"
                 /\ Contains(call[c].result.error.msg, ErrD2Style)
           /\ Get(call[c].params, "model") = Atom("dall-e-3")
              => /\ ~Contains(call[c].result.error.msg, ErrD2Quality)
                 /\ ~Contains(call[c].result.error.msg, ErrD2Style)

(* C17 *)

SizeEnum == {"256x256", "512x512", "1024x1024", "1792x1024", "1024x1792"}

\* the sizes the specification allows each image model
AllowedSizes(model) ==
    IF model = "dall-e-3" THEN {"1024x1024", "1792x1024", "1024x1792"}
    ELSE {"256x256", "512x512", "1024x1024"}

SizeErrorOf(model) == IF model = "dall-e-3" THEN ErrD3Size ELSE ErrD2Size

\* C17: for dall-e-2 and dall-e-3 and each size of the enum, whatever the
\* other parameters, validateDALLEParams lists the model's size error exactly
\* when the size is outside the model's set, and isValidImageSize(size,
\* model) is true exactly when validateDALLEParams lists no size error
C17_SizeErrorIffOutsideModelSet ==
    /\ (/\ dalle.pc = "done"
        /\ dalle.params.model \in {Atom("dall-e-2"), Atom("dall-e-3")}
        /\ dalle.params.size \in {Atom(s) : s \in SizeEnum})
       => /\ SizeErrorOf(dalle.params.model.s) \in Range(dalle.res.errors)
             <=> dalle.params.size.s \notin AllowedSizes(dalle.params.model.s)
          /\ Range(dalle.res.errors) \cap {ErrD3Size, ErrD2Size}
               \subseteq {SizeErrorOf(dalle.params.model.s)}
    /\ (/\ util.pc = "done"
        /\ util.fn = "isValidImageSize"
        /\ util.arg[1] \in SizeEnum
        /\ util.arg[2] \in {"dall-e-2", "dall-e-3"})
       => /\ util.res <=> util.arg[1] \in AllowedSizes(util.arg[2])
          /\ util.res
             <=> Range(validateDALLEParams(
                         [model |-> Atom(util.arg[2]), size |-> Atom(util.arg[1]),
                          quality |-> Undef, style |-> Undef, n |-> Undef]).errors)
                 \cap {ErrD3Size, ErrD2Size} = {}

\* a size of dall-e-2 alone is refused for dall-e-3
C17_Witness ==
    /\ util.pc = "done"
    /\ util.fn = "isValidImageSize"
    /\ util.arg = <<"512x512", "dall-e-3">>
    /\ util.res = FALSE

(* C18 *)

\* C18: validateDALLEParams returns valid exactly when it returns no errors,
\* and it returns none for dall-e-3 with n = 1, a size of dall-e-3, quality
\* standard or hd and style vivid or natural
C18_ValidFlagshipParamsHaveNoErrors ==
    dalle.pc = "done"
    => /\ dalle.res.valid <=> dalle.res.errors = <<>>
       /\ (/\ dalle.params.model = Atom("dall-e-3")
           /\ dalle.params.n = Num(1)
           /\ dalle.params.size \in {Atom("1024x1024"), Atom("1792x1024"), Atom("1024x1792")}
           /\ dalle.params.quality \in {Atom("standard"), Atom("hd")}
           /\ dalle.params.style \in {Atom("vivid"), Atom("natural")})
          => /\ dalle.res.errors = <<>>
             /\ dalle.res.valid

\* one wide hd image in the natural style
C18_Witness ==
    /\ dalle.pc = "done"
    /\ dalle.params = [model |-> Atom("dall-e-3"), n |-> Num(1), size |-> Atom("1792x1024"),
                       quality |-> Atom("hd"), style |-> Atom("natural")]
    /\ dalle.res = [valid |-> TRUE, errors |-> <<>>]

(* C19 *)

\* C19: a chat_completion call whose messages are an empty array fails at
\* the schema as InvalidParams naming messages, with no upstream call, and
\* the messages of a request that is sent upstream are never empty
C19_EmptyMessagesRejected ==
    \A c \in DOMAIN call :
        /\ (/\ call[c].pc # "idle"
            /\ call[c].name = "chat_completion"
            /\ Get(call[c].args, "messages") = Arr(<<>>))
           => /\ call[c].pc = "done"
              /\ call[c].failedAt = "schema"
              /\ KindOf(call[c].result) = "InvalidParams"
              /\ Contains(call[c].result.error.msg, "messages")
              /\ call[c].upstreamCalls = 0
        /\ call[c].request.endpoint = "chat.completions.create"
           => Get(call[c].request.body, "messages") # Arr(<<>>)

(* C20 *)

\* C20: validatePNGFormat(buffer) is true exactly when the buffer has at
\* least 8 bytes and begins with 89 50 4E 47 0D 0A 1A 0A; the bytes after
\* the eighth do not change the answer
C20_PngSignatureOfFirstEightBytes ==
    (util.pc = "done" /\ util.fn = "validatePNGFormat")
    => LET buffer == util.arg[1]
           first == SubSeq(buffer, 1, IF Len(buffer) < 8 THEN Len(buffer) ELSE 8)
       IN /\ util.res
             <=> /\ Len(buffer) >= 8
                 /\ \A i \in 1..8 : buffer[i] = <<137, 80, 78, 71, 13, 10, 26, 10>>[i]
          /\ util.res = validatePNGFormat(first)

\* the signature with its last byte changed and more bytes after it
C20_Witness ==
    /\ util.pc = "done"
    /\ util.fn = "validatePNGFormat"
    /\ Len(util.arg[1]) > 8
    /\ SubSeq(util.arg[1], 1, 7) = <<137, 80, 78, 71, 13, 10, 26>>
    /\ util.arg[1][8] # 10
    /\ util.res = FALSE

(* C21 *)

\* C21: in every step, a call has issued at most one upstream call; once it
\* has issued one it issues no other before it is over; and the step in which
\* the upstream call fails ends the call in a failure
C21_NoRetryInsideDispatch ==
    [][\A c \in DOMAIN call :
         /\ call'[c].upstreamCalls <= 1
         /\ (call[c].upstreamCalls = 1 /\ call'[c].pc # "idle")
            => call'[c].upstreamCalls = 1 /\ call'[c].request = call[c].request
         /\ (call[c].pc = "upstream" /\ call'[c].reply.error.errClass = "APIError")
            => /\ call'[c].pc = "done"
               /\ call'[c].result.kind = "error"
               /\ call'[c].failedAt = "upstream"]_vars

\* a call that ended in an upstream failure, having asked once
C21_Witness ==
    \E c \in DOMAIN call :
        /\ call[c].pc = "done"
        /\ call[c].reply.error.errClass = "APIError"
        /\ call[c].reply.error.status = "429"
        /\ call[c].upstreamCalls = 1
        /\ call[c].result.kind = "error"

(* C22 *)

\* one call run alone from its request to its end, given the answers to its
\* image fetch, its mask fetch and its upstream call
SoloRun(reg, name, args, ri, rm, ru) ==
    LET s0 == Handle(reg, [CallIdle EXCEPT !.name = name, !.args = args])
        s1 == IF s0.pc = "fetch_image"
              THEN [FullAfterImage(s0, LocalFetched(ri)) EXCEPT !.fetched = ri]
              ELSE s0
        s2 == IF s1.pc = "fetch_mask"
              THEN [FullAfterMask(s1, LocalFetched(rm)) EXCEPT !.fetched = rm]
              ELSE s1
    IN IF s2.pc = "upstream" THEN [Settled(reg, s2, ru) EXCEPT !.reply = ru] ELSE s2

\* the record of a finished call is that of a run alone with its arguments
\* and the answers it was given
AsWhenRunAlone(c) ==
    \E ri \in FetchResponses : \E rm \in FetchResponses : \E ru \in UpstreamReplies :
        call[c] = SoloRun(registry, call[c].name, call[c].args, ri, rm, ru)

\* C22: with two calls in flight in any interleaving, a call that has ended
\* holds the result, and all else it recorded, of a run alone with the same
\* arguments and the same external answers; a step of one call leaves the
\* record of the other as it was; and what the calls share, the registry
\* with its schemas and rule tables, never changes
C22_CallsAreIndependent ==
    /\ [](\A c \in DOMAIN call : call[c].pc = "done" => AsWhenRunAlone(c))
    /\ [][/\ registry' = registry
          /\ \A c \in DOMAIN call : \A d \in DOMAIN call \ {c} :
               call'[c] # call[c] => call'[d] = call[d]]_vars

\* both calls are over and neither has been answered yet: an edit that
\* fetched its image and its mask and succeeded, a generation refused by a
\* model rule
C22_Witness ==
    /\ call["c1"].pc = "done"
    /\ call["c2"].pc = "done"
    /\ call["c1"].name = "edit_image"
    /\ call["c1"].fetches = 2
    /\ call["c1"].result.kind = "success"
    /\ call["c2"].name = "generate_image"
    /\ call["c2"].failedAt = "constraint"

-----------------------------------------------------------------------------
(* C23 *)

\* the process has ended
Exited == process.pc = "exited"

\* no call was ever handed to the handler
NoCallServed == process.served = 0 /\ \A c \in DOMAIN call : call[c] = CallIdle

\* C23 as stated: no call's outcome ends the process, the server takes the
\* next call after any answered call, and the process ends only at its start
\* and only when the credential is absent, no call having been served.
C23_ExitOnlyWithoutCredential ==
    /\ [](Exited => ~process.key /\ NoCallServed)
    /\ [][\A c \in DOMAIN call :
            call[c].pc = "done" /\ call'[c] # call[c]
                => process'.pc = "serving" /\ call'[c] = CallIdle]_vars

\* C23, amended: no call's outcome ends the process: a call that is under
\* way or done finds the process serving, and once it is answered, whatever
\* its result, the call slot is idle, the process still serves and the next
\* call can be taken.  The process ends only at its start, either because
\* the credential is absent or because connecting the transport failed, and
\* then no call was ever served.
C23_ExitOnlyAtStartup ==
    /\ [](/\ Exited => NoCallServed
          /\ ~process.key => NoCallServed /\ process.pc \in {"start", "exited"}
          /\ \A c \in DOMAIN call :
               /\ call[c].pc # "idle" => process.pc = "serving"
               /\ (process.pc = "serving" /\ call[c].pc = "idle")
                    => ENABLED ConcCallTool(c))
    /\ [][/\ (Exited' /\ ~Exited)
               => \/ process.pc = "start" /\ ~process.key
                  \/ process.pc = "connecting"
          /\ \A c \in DOMAIN call :
               call[c].pc = "done" /\ call'[c] # call[c]
                   => process'.pc = "serving" /\ call'[c] = CallIdle]_vars

\* MaxServed calls have been answered and one more has just failed upstream, the
\* process still serving
C23_Witness ==
    /\ process.pc = "serving"
    /\ process.served = MaxServed
    /\ call["c1"].pc = "done"
    /\ call["c1"].result.kind = "error"
    /\ call["c1"].failedAt = "upstream"

-----------------------------------------------------------------------------
(* C24 *)

\* the call's upstream request was answered with a response
UpstreamAnswered(c) == call[c].upstreamCalls = 1 /\ call[c].reply.ok

\* C24: a call whose upstream request was answered with a response ends in
\* a success carrying that response: every field of it in the full registry,
\* and for chat_completion of the reduced registry exactly the fields
\* message, usage, model and finish_reason.
C24_UpstreamSuccessGivesSuccess ==
    \A c \in DOMAIN call :
        (call[c].pc = "done" /\ UpstreamAnswered(c))
            => /\ call[c].result.kind = "success"
               /\ call[c].result.payload.response = call[c].reply.response
               /\ registry = "full" => call[c].result.payload.keys = ResponseKeys
               /\ (registry = "reduced" /\ call[c].name = "chat_completion")
                    => call[c].result.payload.keys
                         = {"message", "usage", "model", "finish_reason"}

-----------------------------------------------------------------------------
(* C25 *)

\* the utility has just computed a backoff delay
BackoffCalled == util.pc = "done" /\ util.fn = "exponentialBackoff"

\* the base delay the call ran with
BaseOf(arg) == IF arg[2] = Undef THEN 1000 ELSE arg[2].n

\* the smaller of base * 2^attempt and 32000, by comparison
IsCappedDouble(delay, attempt, base) ==
    \/ delay = base * (2 ^ attempt) /\ delay <= 32000
    \/ delay = 32000 /\ base * (2 ^ attempt) >= 32000

\* C25: the delay of exponentialBackoff(attempt, base) is the smaller of
\* base * 2^attempt and 32000; it never exceeds 32000, it is at least the
\* delay of the attempt before, and with the default base of 1000 it is
\* 32000 from attempt 5 on.
C25_BackoffIsCappedDoubling ==
    BackoffCalled
        => LET attempt == util.arg[1]
               base == BaseOf(util.arg)
           IN /\ IsCappedDouble(util.res, attempt, base)
              /\ util.res <= 32000
              /\ attempt > 0 => util.res >= exponentialBackoff(attempt - 1, base)
              /\ (util.arg[2] = Undef /\ attempt >= 5) => util.res = 32000
              /\ (util.arg[2] = Undef /\ attempt < 5) => util.res = 1000 * (2 ^ attempt)

\* the default base at attempt 5, where the delay first meets the ceiling
C25_Witness ==
    /\ BackoffCalled
    /\ util.arg = <<5, Undef>>
    /\ util.res = 32000

-----------------------------------------------------------------------------
(* C26 *)

\* the utility has just sanitized a prompt
SanitizeCalled == util.pc = "done" /\ util.fn = "sanitizePrompt"

\* C26: what sanitizePrompt(prompt, maxLength) returns is at most maxLength
\* long (4000 when none is given), neither starts nor ends with white space,
\* and has no two white-space characters in a row.
C26_SanitizedIsShortAndTrimmed ==
    SanitizeCalled
        => LET out == util.res
               maxLength == IF util.arg[2] = Undef THEN 4000 ELSE util.arg[2].n
           IN /\ Len(out) <= maxLength
              /\ out # <<>> => out[1] \notin {" ", "\t", "\n"}
              /\ out # <<>> => out[Len(out)] \notin {" ", "\t", "\n"}
              /\ \A i \in 1..(Len(out) - 1) :
                   ~(out[i] \in {" ", "\t", "\n"} /\ out[i + 1] \in {" ", "\t", "\n"})

-----------------------------------------------------------------------------
(* C27 *)

\* the argument, or the default the schema declares for it when it is absent
OrDefault(args, k, d) == IF Get(args, k) = Undef THEN d ELSE Get(args, k)

\* model, n, quality, size and style after the defaults of GenerateImageSchema
Defaulted(args) ==
    [model |-> OrDefault(args, "model", Atom("dall-e-3")),
     n |-> OrDefault(args, "n", Num(1)),
     quality |-> OrDefault(args, "quality", Atom("standard")),
     size |-> OrDefault(args, "size", Atom("1024x1024")),
     style |-> OrDefault(args, "style", Atom("vivid"))]

\* some model rule is broken by these values
RuleBroken(d) ==
    \/ /\ d.model = Atom("dall-e-3")
       /\ Gt(d.n, 1) \/ d.size.s \notin {"1024x1024", "1792x1024", "1024x1792"}
    \/ /\ d.model = Atom("dall-e-2")
       /\ \/ d.quality = Atom("hd")
          \/ d.style # Undef
          \/ d.size.s \notin {"256x256", "512x512", "1024x1024"}

\* C27: in generate_image of the full registry the model rules run only
\* after the schema has accepted the arguments, and on the arguments with the
\* defaults filled in.  A call the schema refuses ends as a schema failure
\* with no model-rule message in it, whatever rule it also breaks; a call the
\* schema accepts ends at a model rule exactly when the defaulted values of
\* model, n, quality, size and style break one, and otherwise goes upstream
\* with the defaulted arguments.
C27_RulesAfterSchemaOnDefaults ==
    \A c \in DOMAIN call :
        (registry = "full" /\ call[c].name = "generate_image" /\ call[c].pc # "idle")
            => LET refused == Parse(GenerateImageSchema, call[c].args).issues # <<>>
                   seen == Defaulted(call[c].args)
               IN /\ call[c].schemaRuns = 1
                  /\ refused
                       => /\ call[c].pc = "done"
                          /\ call[c].failedAt = "schema"
                          /\ call[c].result.error.msg[1] = "Invalid input parameters: "
                          /\ \A m \in ConstraintMessages : ~Contains(call[c].result.error.msg, m)
                          /\ call[c].upstreamCalls = 0
                  /\ ~refused
                       => /\ call[c].failedAt = "constraint" <=> RuleBroken(seen)
                          /\ call[c].failedAt = "constraint"
                               => /\ call[c].pc = "done"
                                  /\ call[c].result.error.msg[1] \in ConstraintMessages
                                  /\ call[c].upstreamCalls = 0
                          /\ ~RuleBroken(seen)
                               => /\ call[c].upstreamCalls = 1
                                  /\ \A k \in DOMAIN seen :
                                       Get(call[c].request.body, k) = seen[k]

\* a call with a count of 2 and no model: the default model dall-e-3 is what
\* the count rule sees
C27_Witness ==
    /\ registry = "full"
    /\ call["c1"].name = "generate_image"
    /\ call["c1"].pc = "done"
    /\ Get(call["c1"].args, "model") = Undef
    /\ Get(call["c1"].args, "n") = Num(2)
    /\ call["c1"].failedAt = "constraint"
    /\ call["c1"].result.error.msg = <<"DALL-E 3 only supports n=1">>

-----------------------------------------------------------------------------
(* C28 *)

\* the field names the schema of a tool declares; list_models has no schema
DeclaredFields(reg, name) ==
    IF name = "list_models" THEN {}
    ELSE {SchemaOf(reg, name)[i].name : i \in 1..Len(SchemaOf(reg, name))}

\* the field names of the request the handler hands to the upstream client
ForwardedFields(c) ==
    DOMAIN call[c].request.body
    \cup (IF call[c].request.image.kind # "none" THEN {"image"} ELSE {})
    \cup (IF call[c].request.mask.kind # "none" THEN {"mask"} ELSE {})

\* C28: every field name of a request sent upstream is a field name the
\* schema of the called tool declares, so a field the caller supplied that
\* the schema does not declare is not in the request.
C28_OnlyDeclaredFieldsForwarded ==
    \A c \in DOMAIN call :
        call[c].upstreamCalls = 1
            => /\ ForwardedFields(c) \subseteq DeclaredFields(registry, call[c].name)
               /\ \A k \in DOMAIN call[c].args \ DeclaredFields(registry, call[c].name) :
                    k \notin ForwardedFields(c)

\* a chat_completion call carrying the key extra has gone upstream without it
C28_Witness ==
    /\ call["c1"].name = "chat_completion"
    /\ call["c1"].upstreamCalls = 1
    /\ "extra" \in DOMAIN call["c1"].args
    /\ "messages" \in DOMAIN call["c1"].request.body
    /\ "extra" \notin DOMAIN call["c1"].request.body

-----------------------------------------------------------------------------
(* C29 *)

\* the call has been taken and has not ended
Running(c) == call[c].pc \in {"fetch_image", "fetch_mask", "upstream"}

\* a success and nothing of a failure, or a failure and nothing of a success
ExactlyOneResult(r) ==
    \/ r.kind = "success" /\ r.error = NoError /\ r.payload.keys # {}
    \/ r.kind = "error" /\ r.error # NoError /\ r.payload = NoPayload

\* C29: when every image fetch and every upstream request that is under way
\* responds or fails in the end, every call that was taken ends; a call that
\* has ended has exactly one result, a success or a failure and never both,
\* a call that has not ended has none, and a result once there stays as it
\* is until it is handed back.
C29_EveryCallEndsWithOneResult ==
    /\ Running("c1") ~> (call["c1"].pc = "done")
    /\ [](/\ call["c1"].pc = "done" => ExactlyOneResult(call["c1"].result)
          /\ call["c1"].pc # "done" => call["c1"].result = NoResult)
    /\ [][call["c1"].pc = "done"
            => (call["c1"]' = call["c1"] \/ call["c1"]' = CallIdle)]_vars

\* an edit_image call that waited for its image, its mask and the upstream
\* API has ended in a success
C29_Witness ==
    /\ call["c1"].name = "edit_image"
    /\ call["c1"].pc = "done"
    /\ call["c1"].fetches = 2
    /\ call["c1"].upstreamCalls = 1
    /\ call["c1"].result.kind = "success"

-----------------------------------------------------------------------------
(* C30 *)

\* the result is a failure whose message starts as an OpenAI API error does
LabelledUpstreamError(r) ==
    /\ r.kind = "error"
    /\ r.error.msg # <<>>
    /\ r.error.msg[1] \in {"OpenAI API error (", "OpenAI API error: "}

\* C30: a call ends in a failure labelled as an OpenAI API error only if it
\* made its upstream request and that request failed; a call whose upstream
\* request was answered with a response, a chat response without choices
\* among them, never ends in such a failure.
C30_UpstreamLabelOnlyOnUpstreamFailure ==
    \A c \in DOMAIN call :
        (call[c].pc = "done" /\ LabelledUpstreamError(call[c].result))
            => /\ call[c].upstreamCalls = 1
               /\ ~call[c].reply.ok
               /\ call[c].reply.error.errClass = "APIError"


====
